---- MODULE Spec2Model ----
(***************************************************************************)
(* A model of the Database class of src/src/lib/json-db.ts: one JSON file  *)
(* per document, an in-memory lock set keyed by path, and writes that go   *)
(* through a temporary file and a rename.  Every asynchronous method is a  *)
(* task; a task's step is one filesystem call together with the            *)
(* synchronous code that runs when the call returns.                       *)
(***************************************************************************)
EXTENDS Integers, Sequences, FiniteSets, TLC

\* ---------------------------------------------------------------- bounds
\* the number of calls issued in a behaviour
MaxOps == 2

\* acquireLock: const maxAttempts = 100
maxAttempts == 100

\* The calls that can be in flight at once.  Every task that waits for a
\* lock multiplies the states by maxAttempts, so there are two: one to hold a
\* lock and one to wait for it, or two to run side by side.
Tasks == {1, 2}
Collections == {"c"}
Ids == {"x", "y"}
\* the ids and the collections in the order of their names
IdOrder == <<"x", "y">>
CollectionOrder == <<"c", "d">>
\* the collections under basePath: the one the calls work on, and another
\* one that only stores documents
AllCollections == Collections \cup {"d"}

\* ------------------------------------------------------------- JS values
JNull == [t |-> "null"]
JUndefined == [t |-> "undef"]
JNaN == [t |-> "nan"]
JTrue == [t |-> "bool", b |-> TRUE]
JFalse == [t |-> "bool", b |-> FALSE]
JNum(n) == [t |-> "num", n |-> n]
JStr(s) == [t |-> "str", s |-> s]
JObj(f) == [t |-> "obj", f |-> f]
\* an array, as the sequence of its elements
JArr(a) == [t |-> "arr", a |-> a]
\* a RegExp, as the set of the strings it accepts
JRegExp(accepts) == [t |-> "regexp", accepts |-> accepts]

docA == JObj([name |-> JStr("Alice"), age |-> JNum(30)])
docB == JObj([name |-> JStr("Bob")])
docN == JObj([name |-> JStr("Nan"), age |-> JNaN])
Data == {docA, docB, docN}
\* documents with a tags array of one and of two elements
docT == JObj([name |-> JStr("Tom"), age |-> JNum(28), tags |-> JArr(<<JStr("a")>>)])
docU == JObj([name |-> JStr("Uma"), age |-> JNum(26),
              tags |-> JArr(<<JStr("a"), JStr("b")>>)])

\* A value JSON can represent: no NaN and no undefined anywhere in it.
RECURSIVE JSONRepresentable(_)
JSONRepresentable(v) ==
    CASE v.t = "nan" -> FALSE
      [] v.t = "undef" -> FALSE
      [] v.t = "obj" -> \A k \in DOMAIN v.f : JSONRepresentable(v.f[k])
      [] v.t = "arr" -> \A i \in DOMAIN v.a : JSONRepresentable(v.a[i])
      [] OTHER -> TRUE

\* ------------------------------------------------------- file contents
Absent == [t |-> "absent"]
\* a file that was opened for writing and does not hold a whole text (yet)
Partial == [t |-> "partial"]
Text(j) == [t |-> "text", json |-> j]

\* The JSON tree JSON.stringify writes for a value: NaN becomes null, a
\* property whose value is undefined is left out and an array element that
\* is undefined becomes null.
RECURSIVE Serialize(_)
Serialize(v) ==
    CASE v.t = "nan" -> JNull
      [] v.t = "obj" ->
           JObj([k \in {k \in DOMAIN v.f : v.f[k].t # "undef"} |-> Serialize(v.f[k])])
      [] v.t = "arr" ->
           JArr([i \in DOMAIN v.a |-> IF v.a[i].t = "undef" THEN JNull ELSE Serialize(v.a[i])])
      [] OTHER -> v

\* a faulty variant of JSONstringify: the last property of an object is lost
JSONstringifyDropsField(v) ==
    IF v.t = "obj" /\ "age" \in DOMAIN v.f
    THEN Text(JObj([k \in DOMAIN v.f \ {"age"} |-> Serialize(v.f[k])]))
    ELSE Text(Serialize(v))

\* JSON.stringify(data, null, 2)
JSONstringify(v) == Text(Serialize(v))

\* JSON.parse(content) succeeds on a whole text only
ParseOk(content) == content.t = "text"
JSONparse(content) == content.json

\* ------------------------------------------------------------------ paths
\* path.join(this.basePath, collection)
getCollectionDir(c) == <<c>>
\* path.join(dirPath, `${id}.json`)
filePath(c, id) == <<c, id, ".json">>

\* a faulty variant of tempPath: the data is written to the document file itself
tempPathInPlace(p) == p
\* `${filePath}.tmp`
tempPath(p) == Append(p, ".tmp")

DocPaths == {filePath(c, id) : c \in AllCollections, id \in Ids}
TmpPaths == {Append(p, ".tmp") : p \in DocPaths}
AllPaths == DocPaths \cup TmpPaths
DirOf(p) == p[1]

\* a faulty variant of Exists: the existence check is skipped
ExistsAlways(fs, p) == TRUE
\* fs.access(filePath) resolves: the file is there
Exists(fs, p) == fs[p] # Absent


\* ------------------------------------------------------------ validators
\* userSchema of the test program: name a string, age a number (zod's
\* z.number() rejects NaN); "none" stands for a call without a schema.
Schemas == {"none", "user"}
\* the (data, schema) pairs write is called with: a document the schema
\* accepts, one it rejects, and documents written without a schema
WriteInputs == {<<docA, "user">>, <<docB, "user">>, <<docB, "none">>, <<docN, "none">>}
SchemaAccepts(schema, v) ==
    \/ schema = "none"
    \/ /\ v.t = "obj"
       /\ {"name", "age"} \subseteq DOMAIN v.f
       /\ v.f["name"].t = "str"
       /\ v.f["age"].t = "num"
       /\ "tags" \in DOMAIN v.f
          => /\ v.f["tags"].t = "arr"
             /\ \A i \in DOMAIN v.f["tags"].a : v.f["tags"].a[i].t = "str"

\* schema.parse(data) for data the schema accepts: the properties the
\* schema does not know are stripped
SchemaParse(schema, v) ==
    IF schema = "none" THEN v
    ELSE JObj([k \in DOMAIN v.f \cap {"name", "age", "tags"} |-> v.f[k]])

\* ---------------------------------------------------------------- filters
\* A DatabaseFilter is a function from its keys to their values: a
\* sequence of filters for $and and $or, a filter for $not, and for a field
\* either a value to be equal to or an object of query operators.
LogicalKeys == {"$and", "$or", "$not"}

\* (document as any)[key]
Prop(document, key) ==
    IF document.t = "obj" /\ key \in DOMAIN document.f THEN document.f[key] ELSE JUndefined

\* a === b: primitives by value, NaN equal to nothing, objects by identity
\* (a parsed document never is the object a filter holds)
StrictEquals(a, b) ==
    /\ a.t \in {"null", "undef", "bool", "num", "str"}
    /\ a.t = b.t
    /\ a = b

\* the number a relational operator makes of a value (NaN for undefined);
\* strings are not compared by the filters of this model
Numeric(v) == v.t \in {"num", "null", "bool"}
ToNumber(v) ==
    CASE v.t = "num" -> v.n
      [] v.t = "bool" -> IF v.b THEN 1 ELSE 0
      [] OTHER -> 0
JSGreater(a, b) == Numeric(a) /\ Numeric(b) /\ ToNumber(a) > ToNumber(b)

\* filter.$op !== undefined
Defined(ops, k) == k \in DOMAIN ops /\ ops[k] # JUndefined

\* Array.prototype.includes compares by SameValueZero: as ===, but NaN is
\* equal to NaN
includes(arr, v) ==
    \E i \in DOMAIN arr.a : StrictEquals(arr.a[i], v) \/ (arr.a[i] = JNaN /\ v = JNaN)

\* the value is, or as an array has an element, in the array of $in / $notIn
InArray(value, arr) ==
    IF value.t = "arr"
    THEN \E i \in DOMAIN value.a : includes(arr, value.a[i])
    ELSE includes(arr, value)

\* matchesFilter(value, filter): the first operator present decides; $regex
\* is passed over unless the value is a string and $arraySize unless it is an
\* array, and a filter none of whose operators decided matches.
matchesFilter(value, ops) ==
    IF Defined(ops, "$equals") THEN StrictEquals(value, ops["$equals"])
    ELSE IF Defined(ops, "$notEquals") THEN ~StrictEquals(value, ops["$notEquals"])
    ELSE IF Defined(ops, "$greaterThan") /\ ops["$greaterThan"] # JNull
    THEN JSGreater(value, ops["$greaterThan"])
    ELSE IF Defined(ops, "$greaterThanOrEqual") /\ ops["$greaterThanOrEqual"] # JNull
    THEN Numeric(value) /\ Numeric(ops["$greaterThanOrEqual"])
         /\ ~JSGreater(ops["$greaterThanOrEqual"], value)
    ELSE IF Defined(ops, "$lessThan") /\ ops["$lessThan"] # JNull
    THEN JSGreater(ops["$lessThan"], value)
    ELSE IF Defined(ops, "$lessThanOrEqual") /\ ops["$lessThanOrEqual"] # JNull
    THEN Numeric(value) /\ Numeric(ops["$lessThanOrEqual"])
         /\ ~JSGreater(value, ops["$lessThanOrEqual"])
    ELSE IF Defined(ops, "$in") THEN InArray(value, ops["$in"])
    ELSE IF Defined(ops, "$notIn") THEN ~InArray(value, ops["$notIn"])
    ELSE IF Defined(ops, "$exists")
    THEN (value \notin {JUndefined, JNull}) = ops["$exists"].b
    ELSE IF Defined(ops, "$regex") /\ value.t = "str"
    THEN value.s \in ops["$regex"].accepts
    ELSE IF Defined(ops, "$arraySize") /\ value.t = "arr"
    THEN Len(value.a) = ops["$arraySize"].n
    ELSE TRUE

\* a faulty variant of Given: an empty array of filters taken as none
GivenNonEmpty(filter, k) == k \in DOMAIN filter /\ (k = "$not" \/ Len(filter[k]) > 0)
\* if (filter.$and), if (filter.$or), if (filter.$not): the key is there and
\* its value is truthy, as every array (an empty one too) and every object is
Given(filter, k) == k \in DOMAIN filter

\* matchesDocument, the loop over the field filters: every key that does not
\* start with '$' must match
FieldsMatch(document, filter) ==
    \A key \in DOMAIN filter :
        \/ key \in LogicalKeys
        \/ IF filter[key].t = "obj"
           THEN matchesFilter(Prop(document, key), filter[key].f)
           ELSE StrictEquals(Prop(document, key), filter[key])

\* matchesDocument(document, filter): $and, then $or, then $not return at
\* once; the field filters are looked at only when none of them is there
RECURSIVE matchesDocument(_, _)
matchesDocument(document, filter) ==
    IF Given(filter, "$and")
    THEN \A i \in DOMAIN filter["$and"] : matchesDocument(document, filter["$and"][i])
    ELSE IF Given(filter, "$or")
    THEN \E i \in DOMAIN filter["$or"] : matchesDocument(document, filter["$or"][i])
    ELSE IF Given(filter, "$not")
    THEN ~matchesDocument(document, filter["$not"])
    ELSE FieldsMatch(document, filter)

\* The filters the queries are called with: none ({}), two operator objects,
\* and an $or of two equalities with a sibling field predicate; then objects
\* of two operators, an $arraySize, and an $and and an $or of no filters.
Filters ==
    << <<>>,
       [age |-> JObj(("$greaterThan" :> JNum(27)))],
       [name |-> JObj(("$equals" :> JStr("Bob")))],
       ("$or" :> << [name |-> JStr("Alice")], [name |-> JStr("Bob")] >>)
           @@ [age |-> JNum(99)],
       [age |-> JObj(("$greaterThan" :> JNum(27)) @@ ("$lessThan" :> JNum(29)))],
       [age |-> JObj(("$equals" :> JNum(30)) @@ ("$exists" :> JFalse))],
       [tags |-> JObj(("$notIn" :> JArr(<<JStr("b")>>)) @@ ("$arraySize" :> JNum(2)))],
       [name |-> JObj(("$exists" :> JTrue) @@ ("$regex" :> JRegExp({"Tom", "Uma"})))],
       [tags |-> JObj(("$arraySize" :> JNum(2)))],
       ("$and" :> <<>>),
       ("$or" :> <<>>) >>

\* the filters of the queries that run beside changing calls, the filters
\* with two operators on one field, and those of the queries on a store at rest
QueryFilters == {1, 2, 3, 4}
TwoOperatorFilters == {5, 6, 7, 8}
RestFilters == {1} \cup TwoOperatorFilters \cup {9, 10, 11}

\* ------------------------------------------------------------------ state
VARIABLES
    dirs,         \* the collection directories that exist under basePath
    files,        \* the content of every file path (Absent when there is none)
    lockedFiles,  \* Database.lockedFiles
    tasks,        \* the asynchronous calls in flight, one record per task
    opsStarted,   \* the number of calls issued so far
    options,      \* Database.options, as the constructor set them
    last          \* history: the call that last changed each document file

vars == <<dirs, files, lockedFiles, tasks, opsStarted, options, last>>

\* A call in flight.  op is the method called and kind what its current item
\* does (a write or a delete of document (c, id)); rest holds the items a
\* writeMany, deleteMany or batchWrite has still to do.  n, before, seen,
\* touched, waited and failedAt are history: the call's serial number, the
\* document's content when the call was issued (read, delete) or began to
\* write, the
\* contents it took while a read ran, whether the call changed a file,
\* whether it ever found its lock held, and where the filesystem failed it.
\* A query (readAll, find, findOne, count, countFiltered, listCollections)
\* has the index fid of its filter in Filters, the file it is reading, the
\* listing it has still to go through and the entries it has collected; solo
\* is history: no other call was in flight when this one was issued.  input
\* and order are history of a batchWrite or batchRead: the operations as they
\* were given (for a writeMany, its documents in the order of Object.entries),
\* and the operations answered so far, one per result.  acqAfter is history:
\* the serial number of the call that had last changed the document when
\* this call acquired the document's lock.
IdleTask ==
    [op |-> "none", kind |-> "none", c |-> "", id |-> "", data |-> JUndefined,
     schema |-> "none", rest |-> <<>>, results |-> <<>>, deleted |-> 0,
     pc |-> "idle", attempts |-> 0, result |-> JUndefined, err |-> "none",
     n |-> 0, before |-> Absent, seen |-> {}, touched |-> FALSE, waited |-> FALSE,
     failedAt |-> "", fid |-> 1, file |-> <<>>, listing |-> <<>>, entries |-> <<>>,
     solo |-> FALSE, input |-> <<>>, order |-> <<>>, acqAfter |-> 0]

Item(kind, c, id, data) == [kind |-> kind, c |-> c, id |-> id, data |-> data]

PathOf(rec) == filePath(rec.c, rec.id)

\* the options of new Database(basePath), and the option sets the
\* constructor can be given
DefaultOptions == [createDirectory |-> TRUE, validateOnRead |-> FALSE]
OptionSets == {[createDirectory |-> TRUE, validateOnRead |-> v] : v \in BOOLEAN}

\* What basePath holds when the Database is constructed: nothing, or a
\* document stored by an earlier run.
InitStores ==
    {[p \in AllPaths |-> Absent],
     [p \in AllPaths |-> IF p = filePath("c", "x") THEN JSONstringify(docA) ELSE Absent]}

Init ==
    /\ files \in InitStores
    /\ dirs = {getCollectionDir(DirOf(p)) : p \in {q \in AllPaths : files[q] # Absent}}
    /\ lockedFiles = {}
    /\ tasks = [t \in Tasks |-> IdleTask]
    /\ opsStarted = 0
    /\ options = DefaultOptions
    /\ last = [p \in DocPaths |-> [n |-> 0, data |-> JUndefined]]

\* ---------------------------------------------------------------- locking
\* a faulty variant of LockFree: the lock set is not consulted
LockFreeAlways(locked, file) == TRUE
\* acquireLock: !this.lockedFiles.has(file)
LockFree(locked, file) == file \notin locked

\* a faulty variant of LoopContinues: one check too many
LoopContinuesOffByOne(attempts) == attempts <= maxAttempts
\* acquireLock: while (attempts < maxAttempts)
LoopContinues(attempts) == attempts < maxAttempts

\* a faulty variant of lockKey: one lock per collection directory
lockKeyPerCollection(p) == getCollectionDir(DirOf(p))
\* the key handed to acquireLock and releaseLock: the document's file path
lockKey(p) == p

\* a faulty variant of releaseLock: the lock stays in the table
releaseLockKeeps(locked, file) == locked
\* releaseLock: this.lockedFiles.delete(file)
releaseLock(locked, file) == locked \ {file}

\* a faulty variant of lockedAfterTimeout: acquireLock inside the try, so that the
\* finally clause releases a lock the task never held
lockedAfterTimeoutReleases(locked, file) == locked \ {file}
\* the lock set after acquireLock throws: the call is outside try/finally
lockedAfterTimeout(locked, file) == locked

\* the step a task takes once it holds the lock
HeldPc(kind) ==
    CASE kind = "write" -> "writeTmp"
      [] kind = "drop" -> "rm"
      [] OTHER -> "unlink"

\* the path a task locks: the document's file, or for dropCollection the
\* collection directory
LockTarget(rec) == IF rec.kind = "drop" THEN getCollectionDir(rec.c) ELSE PathOf(rec)

\* the call settles: it resolves with result, or rejects with err
Done(rec, result, err) ==
    [rec EXCEPT !.pc = "done", !.result = result, !.err = err, !.attempts = 0]

\* One pass of acquireLock's loop body: take the lock if it is free,
\* otherwise count the attempt and sleep for lockDelay.
acquireLock(rec, locked) ==
    IF LockFree(locked, lockKey(LockTarget(rec)))
    THEN [task |-> [rec EXCEPT !.pc = HeldPc(rec.kind), !.attempts = 0,
                               !.acqAfter = IF rec.kind = "drop" THEN 0
                                            ELSE last[PathOf(rec)].n],
          locked |-> locked \cup {lockKey(LockTarget(rec))}]
    ELSE [task |-> [rec EXCEPT !.pc = "sleep", !.attempts = @ + 1, !.waited = TRUE],
          locked |-> locked]

\* ------------------------------------------------- calls of several items
\* the loop of a writeMany, deleteMany or batchWrite moves to its next item
Advance(rec) ==
    [rec EXCEPT !.kind = Head(rec.rest).kind, !.c = Head(rec.rest).c,
                !.id = Head(rec.rest).id, !.data = Head(rec.rest).data,
                !.rest = Tail(rec.rest), !.attempts = 0, !.before = Absent]

\* a faulty variant of ValidateAndWrite: the document is not validated
WriteUnvalidated(rec, locked) == acquireLock(rec, locked)

\* write and writeMany: schema.parse(data), whose result is dropped, then
\* writeJSONFile's first pass through acquireLock with the data as given
ValidateAndWrite(rec, locked) ==
    IF SchemaAccepts(rec.schema, rec.data)
    THEN acquireLock(rec, locked)
    ELSE [task |-> Done(rec, JUndefined, "validation"), locked |-> locked]

BatchResult(success, error) == [success |-> success, error |-> error]

\* a faulty variant of BatchStep: an operation that is neither makes the call
\* throw
BatchStepThrows(rec, locked) ==
    IF rec.kind = "write" /\ rec.id # "" /\ rec.data # JUndefined
    THEN acquireLock(rec, locked)
    ELSE IF rec.kind = "delete" /\ rec.id # ""
    THEN [task |-> [rec EXCEPT !.pc = "access"], locked |-> locked]
    ELSE [task |-> Done(rec, JUndefined, "invalid"), locked |-> locked]

\* batchWrite: the body of the loop over a collection's operations, run for
\* the current item up to its first filesystem call or timer; an operation
\* that is neither a write with id and data nor a delete with id is answered
\* 'Invalid operation' and the loop goes on.
RECURSIVE BatchStep(_, _)
BatchStep(rec, locked) ==
    IF rec.kind = "write" /\ rec.id # "" /\ rec.data # JUndefined
    THEN acquireLock(rec, locked)
    ELSE IF rec.kind = "delete" /\ rec.id # ""
    THEN [task |-> [rec EXCEPT !.pc = "access"], locked |-> locked]
    ELSE LET r == [rec EXCEPT !.results = Append(@, BatchResult(FALSE, "invalid")),
                              !.order = Append(@, Item(rec.kind, rec.c, rec.id, rec.data))]
         IN IF r.rest = <<>>
            THEN [task |-> Done(r, JUndefined, "none"), locked |-> locked]
            ELSE IF Head(r.rest).c # r.c
            THEN [task |-> [Advance(r) EXCEPT !.pc = "ensure"], locked |-> locked]
            ELSE BatchStep(Advance(r), locked)

\* a faulty variant of groupByCollection: the operations are not grouped
groupByCollectionNot(ops) == ops

\* batchWrite: the operations grouped by collection, the collections in the
\* order of their first operation
RECURSIVE groupByCollection(_)
groupByCollection(ops) ==
    IF ops = <<>> THEN <<>>
    ELSE SelectSeq(ops, LAMBDA o : o.c = Head(ops).c)
         \o groupByCollection(SelectSeq(ops, LAMBDA o : o.c # Head(ops).c))

\* The current item of a call has ended with result res or error err, and
\* the synchronous code after it runs: a write, delete or read settles; a
\* writeMany or deleteMany rejects on an error and otherwise goes on with
\* its next item; a batchWrite records the outcome and goes on.
ItemEnd(rec, res, err, locked) ==
    CASE rec.op = "writeMany" ->
           IF err # "none" THEN [task |-> Done(rec, JUndefined, err), locked |-> locked]
           ELSE IF rec.rest = <<>>
           THEN [task |-> Done(rec, JUndefined, "none"), locked |-> locked]
           ELSE ValidateAndWrite(Advance(rec), locked)
      [] rec.op = "deleteMany" ->
           IF err # "none" THEN [task |-> Done(rec, JUndefined, err), locked |-> locked]
           ELSE LET r == [rec EXCEPT !.deleted = IF res = JTrue THEN @ + 1 ELSE @]
                IN IF r.rest = <<>>
                   THEN [task |-> Done(r, JNum(r.deleted), "none"), locked |-> locked]
                   ELSE [task |-> [Advance(r) EXCEPT !.pc = "access"], locked |-> locked]
      [] rec.op = "batchWrite" ->
           LET r == [rec EXCEPT !.results =
                        Append(@, IF err # "none" THEN BatchResult(FALSE, err)
                                  ELSE IF res = JFalse THEN BatchResult(FALSE, "notfound")
                                  ELSE BatchResult(TRUE, "")),
                           !.order = Append(@, Item(rec.kind, rec.c, rec.id, rec.data))]
           IN IF r.rest = <<>>
              THEN [task |-> Done(r, JUndefined, "none"), locked |-> locked]
              ELSE IF Head(r.rest).c # r.c
              THEN [task |-> [Advance(r) EXCEPT !.pc = "ensure"], locked |-> locked]
              ELSE BatchStep(Advance(r), locked)
      [] OTHER -> [task |-> Done(rec, res, err), locked |-> locked]

\* The timer of a sleeping task fires: the loop condition is tested again,
\* and acquireLock throws when it fails.
Wake(t) ==
    /\ tasks[t].pc = "sleep"
    /\ LET rec == tasks[t]
           r == IF LoopContinues(rec.attempts)
                THEN acquireLock(rec, lockedFiles)
                ELSE ItemEnd(rec, JUndefined, "lock",
                             lockedAfterTimeout(lockedFiles, lockKey(LockTarget(rec))))
       IN /\ tasks' = [tasks EXCEPT ![t] = r.task]
          /\ lockedFiles' = r.locked
    /\ UNCHANGED <<options, dirs, files, opsStarted, last>>

\* ------------------------------------------------------------- history
\* Every read in flight on document p sees the content p now has.
Observe(tk, p, content) ==
    [u \in Tasks |->
        IF tk[u].op = "read" /\ tk[u].pc \notin {"idle", "done"} /\ PathOf(tk[u]) = p
        THEN [tk[u] EXCEPT !.seen = @ \cup {content}]
        ELSE tk[u]]

\* a faulty variant of SetFile: the other files of the directory are lost
SetFileAlone(fs, q, content) ==
    [p \in AllPaths |-> IF p = q THEN content
                        ELSE IF DirOf(p) = DirOf(q) THEN Absent ELSE fs[p]]
\* the files after a filesystem call has set the content of path q
SetFile(fs, q, content) == [fs EXCEPT ![q] = content]

\* A call can be issued on task t: of the free tasks, the first one takes it.
FreeSlot(t) ==
    /\ tasks[t].pc = "idle"
    /\ \A u \in Tasks : u < t => tasks[u].pc # "idle"

\* no call is in flight
Quiet == \A u \in Tasks : tasks[u].pc \in {"idle", "done"}

\* the record of a call just issued
NewCall(op, items, schema, pc) ==
    [Advance([IdleTask EXCEPT !.rest = items])
        EXCEPT !.op = op, !.schema = schema, !.pc = pc, !.n = opsStarted + 1]

\* ------------------------------------------------------------------ write
\* write(collection, id, data, schema): the call is issued and
\* ensureDirectoryExists starts its fs.access(dirPath).
StartWrite(t, c, id, d, schema) ==
    /\ FreeSlot(t)
    /\ opsStarted < MaxOps
    /\ opsStarted' = opsStarted + 1
    /\ tasks' = [tasks EXCEPT ![t] =
                    NewCall("write", <<Item("write", c, id, d)>>, schema, "ensure")]
    /\ UNCHANGED <<options, dirs, files, lockedFiles, last>>

\* The code that runs once ensureDirectoryExists has returned.
AfterEnsure(rec, locked) ==
    IF rec.op = "batchWrite" THEN BatchStep(rec, locked)
    ELSE ValidateAndWrite(rec, locked)

\* ensureDirectoryExists: fs.access(dirPath) returns
EnsureAccess(t) ==
    /\ tasks[t].pc = "ensure"
    /\ LET rec == tasks[t]
           r == AfterEnsure(rec, lockedFiles)
       IN IF getCollectionDir(rec.c) \in dirs
          THEN /\ tasks' = [tasks EXCEPT ![t] = r.task]
               /\ lockedFiles' = r.locked
          ELSE /\ tasks' = [tasks EXCEPT ![t].pc = "mkdir"]
               /\ lockedFiles' = lockedFiles
    /\ UNCHANGED <<options, dirs, files, opsStarted, last>>

\* ensureDirectoryExists: fs.mkdir(dirPath, { recursive: true }) returns
Mkdir(t) ==
    /\ tasks[t].pc = "mkdir"
    /\ LET rec == tasks[t]
           r == AfterEnsure(rec, lockedFiles)
       IN /\ dirs' = dirs \cup {getCollectionDir(rec.c)}
          /\ tasks' = [tasks EXCEPT ![t] = r.task]
          /\ lockedFiles' = r.locked
    /\ UNCHANGED <<options, files, opsStarted, last>>

\* writeJSONFileUnsafe: fs.writeFile(tempPath, ...) opens the temporary
\* file, which creates or truncates it; ENOENT when the directory is gone.
WriteOpen(t) ==
    /\ tasks[t].pc = "writeTmp"
    /\ LET rec == tasks[t]
           p == PathOf(rec)
           q == tempPath(p)
           r == ItemEnd(rec, JUndefined, "enoent", releaseLock(lockedFiles, lockKey(p)))
       IN IF getCollectionDir(rec.c) \in dirs
          THEN /\ files' = SetFile(files, q, Partial)
               /\ tasks' = Observe([tasks EXCEPT ![t].pc = "writing",
                                                  ![t].touched = TRUE,
                                                  ![t].before = files[p]], q, Partial)
               /\ lockedFiles' = lockedFiles
          ELSE /\ files' = files
               /\ tasks' = [tasks EXCEPT ![t] = r.task]
               /\ lockedFiles' = r.locked
    /\ UNCHANGED <<options, dirs, opsStarted, last>>

\* What the file holds once this writer has written its text into it: the
\* whole text if the file is as the writer's open left it, nothing if the
\* path was unlinked meanwhile, and no whole text if another writer's bytes
\* are in it.
Written(old, text) ==
    CASE old = Partial -> text
      [] old = Absent -> Absent
      [] old = text -> text
      [] OTHER -> Partial

\* writeJSONFileUnsafe: fs.writeFile(tempPath, ...) writes the text and
\* closes the file
WriteFinish(t) ==
    /\ tasks[t].pc = "writing"
    /\ LET rec == tasks[t]
           q == tempPath(PathOf(rec))
           new == Written(files[q], JSONstringify(rec.data))
       IN /\ files' = SetFile(files, q, new)
          /\ tasks' = Observe([tasks EXCEPT ![t].pc = "rename"], q, new)
    /\ UNCHANGED <<options, dirs, lockedFiles, opsStarted, last>>

\* a faulty variant of Renamed: the new document is merged into the old one
RenamedMerges(old, new) ==
    IF old.t = "text" /\ new.t = "text" /\ old.json.t = "obj" /\ new.json.t = "obj"
    THEN Text(JObj([k \in DOMAIN old.json.f \cup DOMAIN new.json.f |->
                      IF k \in DOMAIN new.json.f THEN new.json.f[k] ELSE old.json.f[k]]))
    ELSE new
\* fs.rename(tempPath, filePath): the target's content after the rename,
\* given what it held and what the temporary file holds
Renamed(old, new) == new

\* writeJSONFileUnsafe: fs.rename(tempPath, filePath) returns (ENOENT if the
\* temporary file is gone), and the finally clause releases the lock.
Rename(t) ==
    /\ tasks[t].pc = "rename"
    /\ LET rec == tasks[t]
           p == PathOf(rec)
           q == tempPath(p)
           new == Renamed(files[p], files[q])
           ok == ItemEnd([rec EXCEPT !.before = Absent], JUndefined, "none",
                         releaseLock(lockedFiles, lockKey(p)))
           ko == ItemEnd(rec, JUndefined, "enoent", releaseLock(lockedFiles, lockKey(p)))
       IN IF files[q] # Absent
          THEN /\ files' = [files EXCEPT ![q] = Absent, ![p] = new]
               /\ tasks' = Observe([tasks EXCEPT ![t] = ok.task], p, new)
               /\ last' = [last EXCEPT ![p] = [n |-> rec.n, data |-> rec.data]]
               /\ lockedFiles' = ok.locked
          ELSE /\ files' = files
               /\ tasks' = [tasks EXCEPT ![t] = ko.task]
               /\ last' = last
               /\ lockedFiles' = ko.locked
    /\ UNCHANGED <<options, dirs, opsStarted>>

\* ----------------------------------------------------------------- delete
\* delete(collection, id): the call is issued and starts fs.access(filePath)
StartDelete(t, c, id) ==
    /\ FreeSlot(t)
    /\ opsStarted < MaxOps
    /\ opsStarted' = opsStarted + 1
    /\ tasks' = [tasks EXCEPT ![t] =
                    [NewCall("delete", <<Item("delete", c, id, JUndefined)>>, "none", "access")
                        EXCEPT !.before = files[filePath(c, id)]]]
    /\ UNCHANGED <<options, dirs, files, lockedFiles, last>>

\* delete, deleteMany, batchWrite: fs.access(filePath) returns; a missing
\* file ends the item (false, skipped, 'Document not found'), otherwise the
\* first pass through acquireLock follows
DeleteAccess(t) ==
    /\ tasks[t].pc = "access"
    /\ LET rec == tasks[t]
           r == IF ~Exists(files, PathOf(rec))
                THEN ItemEnd(rec, JFalse, "none", lockedFiles)
                ELSE acquireLock(rec, lockedFiles)
       IN /\ tasks' = [tasks EXCEPT ![t] = r.task]
          /\ lockedFiles' = r.locked
    /\ UNCHANGED <<options, dirs, files, opsStarted, last>>

\* delete, deleteMany, batchWrite: fs.unlink(filePath) returns (ENOENT if
\* the file is gone), and the finally clause releases the lock
Unlink(t) ==
    /\ tasks[t].pc = "unlink"
    /\ LET rec == tasks[t]
           p == PathOf(rec)
           ok == ItemEnd([rec EXCEPT !.touched = TRUE], JTrue, "none",
                         releaseLock(lockedFiles, lockKey(p)))
           ko == ItemEnd(rec, JUndefined, "enoent", releaseLock(lockedFiles, lockKey(p)))
       IN IF files[p] # Absent
          THEN /\ files' = SetFile(files, p, Absent)
               /\ tasks' = Observe([tasks EXCEPT ![t] = ok.task], p, Absent)
               /\ last' = [last EXCEPT ![p] = [n |-> rec.n, data |-> JUndefined]]
               /\ lockedFiles' = ok.locked
          ELSE /\ files' = files
               /\ tasks' = [tasks EXCEPT ![t] = ko.task]
               /\ last' = last
               /\ lockedFiles' = ko.locked
    /\ UNCHANGED <<options, dirs, opsStarted>>

\* ------------------------------------------------------- directory listings
\* a faulty variant of endsWithJson: every directory entry is taken
endsWithJsonAlways(name) == TRUE
\* f.endsWith('.json')
endsWithJson(name) == name[Len(name)] = ".json"

\* the names a directory of collection c can hold, in the order of a listing
\* (by name: each document before its temporary file)
RECURSIVE NamesFrom(_, _)
NamesFrom(c, ids) ==
    IF ids = <<>> THEN <<>>
    ELSE <<filePath(c, Head(ids)), tempPath(filePath(c, Head(ids)))>>
         \o NamesFrom(c, Tail(ids))

\* fs.readdir(dirPath): the entries of the directory
readdir(fs, c) == SelectSeq(NamesFrom(c, IdOrder), LAMBDA name : fs[name] # Absent)

\* fs.readdir(this.basePath): the collection directories
readdirBase(ds) == SelectSeq(CollectionOrder, LAMBDA c : getCollectionDir(c) \in ds)

\* path.basename(file, '.json') of a listed name
basename(name) == name[2]

\* an entry of the Map readAll builds; file is history, the path it was read from
Entry(id, data, file) == [id |-> id, data |-> data, file |-> file]
JMap(entries) == [t |-> "map", entries |-> entries]
JPair(e) == [t |-> "pair", id |-> e.id, data |-> e.data]
JList(names) == [t |-> "list", names |-> names]

\* the filter a query was called with
FilterOf(rec) == Filters[rec.fid]

\* find: the entries of allData that match, in the order of allData
FindIn(entries, filter) ==
    SelectSeq(entries, LAMBDA e : matchesDocument(e.data, filter))

\* a faulty variant of FindOneIn: the last match is returned
FindOneInLast(entries, filter) ==
    IF FindIn(entries, filter) = <<>> THEN JNull
    ELSE JPair(FindIn(entries, filter)[Len(FindIn(entries, filter))])
\* findOne: the loop over allData returns at the first match
RECURSIVE FindOneIn(_, _)
FindOneIn(entries, filter) ==
    IF entries = <<>> THEN JNull
    ELSE IF matchesDocument(Head(entries).data, filter) THEN JPair(Head(entries))
    ELSE FindOneIn(Tail(entries), filter)

\* readAllFiltered: everything for an empty filter, else the matches
readAllFiltered(entries, filter) ==
    IF DOMAIN filter = {} THEN entries ELSE FindIn(entries, filter)

\* an operation of batchRead: collection, id ("" for none) and the index of
\* its filter in Filters (0 for none); and the call it is answered with
ReadOp(c, id, fid) == [c |-> c, id |-> id, fid |-> fid]
CallOf(o) ==
    IF o.id # "" THEN "read" ELSE IF o.fid # 0 THEN "readAllFiltered" ELSE "readAll"

\* a result of batchRead
BatchReadResult(success, data, error) == [success |-> success, data |-> data, error |-> error]

\* batchRead: the loop goes to its next operation and starts the first
\* filesystem call of read, readAllFiltered or readAll, or returns results
BatchReadStep(rec) ==
    IF rec.rest = <<>> THEN Done(rec, JUndefined, "none")
    ELSE LET o == Head(rec.rest)
         IN [rec EXCEPT !.rest = Tail(rec.rest), !.kind = CallOf(o), !.c = o.c, !.id = o.id,
                        !.fid = IF o.fid = 0 THEN 1 ELSE o.fid,
                        !.file = <<>>, !.listing = <<>>, !.entries = <<>>,
                        !.pc = IF o.id # "" THEN "readAccess" ELSE "dirAccess"]

\* a faulty variant of Settle: batchRead has no catch
SettleThrows(rec, result, err) ==
    IF rec.op = "batchRead" /\ err = "none"
    THEN BatchReadStep([rec EXCEPT
             !.results = Append(@, BatchReadResult(TRUE, result, "")),
             !.order = Append(@, ReadOp(rec.c, rec.id, rec.input[Len(rec.order) + 1].fid))])
    ELSE Done(rec, result, err)

\* read, readAll or readAllFiltered has returned result or thrown err: the
\* call settles with it, unless it was made by batchRead, which pushes
\* { success: true, data } or, having caught the error, { success: false,
\* error } and goes on
Settle(rec, result, err) ==
    IF rec.op = "batchRead"
    THEN BatchReadStep([rec EXCEPT
             !.results = Append(@, IF err = "none" THEN BatchReadResult(TRUE, result, "")
                                   ELSE BatchReadResult(FALSE, JUndefined, err)),
             !.order = Append(@, ReadOp(rec.c, rec.id, rec.input[Len(rec.order) + 1].fid))])
    ELSE Done(rec, result, err)

\* the query a task is running: the method called, or the one batchRead calls
QueryOf(rec) == IF rec.op = "batchRead" THEN rec.kind ELSE rec.op

\* readAll has gone through its listing: what the query returns
QueryEnd(rec) ==
    Settle(rec,
           CASE QueryOf(rec) = "find" -> JMap(FindIn(rec.entries, FilterOf(rec)))
             [] QueryOf(rec) = "findOne" -> FindOneIn(rec.entries, FilterOf(rec))
             [] QueryOf(rec) = "countFiltered" ->
                  JNum(Len(readAllFiltered(rec.entries, FilterOf(rec))))
             [] QueryOf(rec) = "readAllFiltered" ->
                  JMap(readAllFiltered(rec.entries, FilterOf(rec)))
             [] OTHER -> JMap(rec.entries),
           "none")

\* readAll: the loop goes to the next listed file, or ends
ReadNext(rec) ==
    IF rec.listing = <<>> THEN QueryEnd(rec)
    ELSE [rec EXCEPT !.file = Head(rec.listing), !.listing = Tail(rec.listing),
                     !.pc = "readAccess"]

\* the file readJSONFile is called with
ReadPath(rec) == IF rec.kind = "read" THEN PathOf(rec) ELSE rec.file

\* readJSONFile has returned value or thrown err: read settles with it;
\* readAll, which has no catch, throws the error, and otherwise keeps the
\* value unless it is null and goes on
ReadEnd(rec, value, err) ==
    IF rec.kind = "read" THEN Settle(rec, value, err)
    ELSE IF err # "none" THEN Settle(rec, JUndefined, err)
    ELSE ReadNext([rec EXCEPT !.entries =
                      IF value # JNull
                      THEN Append(@, Entry(basename(rec.file), value, rec.file))
                      ELSE @])

\* ------------------------------------------------------------------- read
\* read(collection, id): the call is issued and readJSONFile starts its
\* fs.access(filePath)
StartRead(t, c, id, schema) ==
    /\ FreeSlot(t)
    /\ opsStarted < MaxOps
    /\ opsStarted' = opsStarted + 1
    /\ tasks' = [tasks EXCEPT ![t] =
                    [NewCall("read", <<Item("read", c, id, JUndefined)>>, schema, "readAccess")
                        EXCEPT !.before = files[filePath(c, id)], !.solo = Quiet]]
    /\ UNCHANGED <<options, dirs, files, lockedFiles, last>>

\* readJSONFile: fs.access(filePath) returns; null if the file is missing
ReadAccess(t) ==
    /\ tasks[t].pc = "readAccess"
    /\ LET rec == tasks[t]
       IN IF ~Exists(files, ReadPath(rec))
          THEN tasks' = [tasks EXCEPT ![t] = ReadEnd(rec, JNull, "none")]
          ELSE tasks' = [tasks EXCEPT ![t].pc = "readFile"]
    /\ UNCHANGED <<options, dirs, files, lockedFiles, opsStarted, last>>

\* a faulty variant of ValidatesOnRead: a schema is always applied
ValidatesOnReadAlways(schema, opts) == schema # "none"
\* if (schema && this.options.validateOnRead)
ValidatesOnRead(schema, opts) == schema # "none" /\ opts.validateOnRead

\* readJSONFile: fs.readFile(filePath) returns (ENOENT if the file is gone),
\* JSON.parse(content) runs and, if there is a schema and validateOnRead is
\* set, schema.parse(data) returns the data or throws
ReadFile(t) ==
    /\ tasks[t].pc = "readFile"
    /\ LET rec == tasks[t]
           content == files[ReadPath(rec)]
       IN tasks' = [tasks EXCEPT ![t] =
                       IF content = Absent THEN ReadEnd(rec, JUndefined, "enoent")
                       ELSE IF ~ParseOk(content) THEN ReadEnd(rec, JUndefined, "syntax")
                       ELSE IF ~ValidatesOnRead(rec.schema, options)
                       THEN ReadEnd(rec, JSONparse(content), "none")
                       ELSE IF SchemaAccepts(rec.schema, JSONparse(content))
                       THEN ReadEnd(rec, SchemaParse(rec.schema, JSONparse(content)), "none")
                       ELSE ReadEnd(rec, JUndefined, "validation")]
    /\ UNCHANGED <<options, dirs, files, lockedFiles, opsStarted, last>>

\* --------------------------------------------------------- the environment
\* The filesystem call a lock holder is waiting for fails (disk full,
\* permission denied): nothing more is written, the finally clause releases
\* the lock and the error is thrown.
FsCallFails(t) ==
    /\ tasks[t].pc \in {"writeTmp", "writing", "rename", "unlink", "rm"}
    /\ LET rec == tasks[t]
           r == ItemEnd([rec EXCEPT !.failedAt = rec.pc], JUndefined, "io",
                        releaseLock(lockedFiles, lockKey(LockTarget(rec))))
       IN /\ tasks' = [tasks EXCEPT ![t] = r.task]
          /\ lockedFiles' = r.locked
    /\ UNCHANGED <<options, dirs, files, opsStarted, last>>

\* The caller takes the result of a settled call; the task is free again.
Return(t) ==
    /\ tasks[t].pc = "done"
    /\ tasks' = [tasks EXCEPT ![t] = IdleTask]
    /\ UNCHANGED <<options, dirs, files, lockedFiles, opsStarted, last>>

Next ==
    \E t \in Tasks :
        \/ \E c \in Collections, id \in Ids, w \in WriteInputs :
               StartWrite(t, c, id, w[1], w[2])
        \/ EnsureAccess(t)
        \/ Mkdir(t)
        \/ Wake(t)
        \/ WriteOpen(t)
        \/ WriteFinish(t)
        \/ Rename(t)
        \/ \E c \in Collections, id \in Ids : StartDelete(t, c, id)
        \/ DeleteAccess(t)
        \/ Unlink(t)
        \/ \E c \in Collections, id \in Ids : StartRead(t, c, id, "none")
        \/ ReadAccess(t)
        \/ ReadFile(t)
        \/ FsCallFails(t)
        \/ Return(t)

Spec == Init /\ [][Next]_vars

\* The timers of sleeping tasks fire: setTimeout always calls back.  Nothing
\* is assumed of the lock holders, whose filesystem calls may never return.
SpecFair == Spec /\ \A t \in Tasks : WF_vars(Wake(t))

\* ------------------------------------ writeMany, deleteMany, batchWrite
\* the documents writeMany is called with, in the order of Object.entries
WriteManyInputs ==
    {<<Item("write", "c", "x", docA), Item("write", "c", "y", docB)>>,
     <<Item("write", "c", "y", docB), Item("write", "c", "x", docA)>>}

\* writeMany(collection, documents, schema): the call is issued and
\* ensureDirectoryExists starts its fs.access(dirPath)
StartWriteMany(t, docs, schema) ==
    /\ FreeSlot(t)
    /\ opsStarted < MaxOps
    /\ opsStarted' = opsStarted + 1
    /\ tasks' = [tasks EXCEPT ![t] =
                    [NewCall("writeMany", docs, schema, "ensure") EXCEPT !.input = docs]]
    /\ UNCHANGED <<options, dirs, files, lockedFiles, last>>

\* the ids deleteMany is called with
DeleteManyInputs ==
    {<<Item("delete", "c", "x", JUndefined), Item("delete", "c", "y", JUndefined)>>,
     <<Item("delete", "c", "y", JUndefined), Item("delete", "c", "x", JUndefined)>>}

\* deleteMany(collection, ids): the call is issued and starts the
\* fs.access(filePath) of its first id
StartDeleteMany(t, ids) ==
    /\ FreeSlot(t)
    /\ opsStarted < MaxOps
    /\ opsStarted' = opsStarted + 1
    /\ tasks' = [tasks EXCEPT ![t] = NewCall("deleteMany", ids, "none", "access")]
    /\ UNCHANGED <<options, dirs, files, lockedFiles, last>>

\* the operations batchWrite is called with: writes and deletes, an
\* operation without an id, one of an unknown type and a write without data;
\* the last batch has an operation of another collection between two of c
BatchWriteInputs ==
    {<<Item("write", "c", "x", docB), Item("delete", "c", "x", JUndefined),
       Item("write", "c", "", docA)>>,
     <<Item("patch", "c", "y", docA), Item("delete", "c", "y", JUndefined),
       Item("write", "c", "y", docA)>>,
     <<Item("write", "c", "x", docA), Item("write", "d", "x", docB),
       Item("write", "c", "y", JUndefined)>>}

\* batchWrite(operations): the call is issued, the operations are grouped and
\* ensureDirectoryExists starts its fs.access(dirPath) for the first group
StartBatchWrite(t, ops) ==
    /\ FreeSlot(t)
    /\ opsStarted < MaxOps
    /\ opsStarted' = opsStarted + 1
    /\ tasks' = [tasks EXCEPT ![t] =
                    [NewCall("batchWrite", groupByCollection(ops), "none", "ensure")
                        EXCEPT !.input = ops]]
    /\ UNCHANGED <<options, dirs, files, lockedFiles, last>>

NextMany ==
    \/ Next
    \/ \E t \in Tasks :
        \/ \E docs \in WriteManyInputs, s \in Schemas : StartWriteMany(t, docs, s)
        \/ \E ids \in DeleteManyInputs : StartDeleteMany(t, ids)
        \/ \E ops \in BatchWriteInputs : StartBatchWrite(t, ops)

\* the Database with all its calls that take locks
SpecMany == Init /\ [][NextMany]_vars

\* batchWrite beside a write and a delete of one document
NextBatch ==
    \E t \in Tasks :
        \/ \E ops \in BatchWriteInputs : StartBatchWrite(t, ops)
        \/ StartWrite(t, "c", "x", docA, "none")
        \/ StartDelete(t, "c", "x")
        \/ EnsureAccess(t)
        \/ Mkdir(t)
        \/ Wake(t)
        \/ WriteOpen(t)
        \/ WriteFinish(t)
        \/ Rename(t)
        \/ DeleteAccess(t)
        \/ Unlink(t)
        \/ FsCallFails(t)
        \/ Return(t)

\* the Database with batchWrite, write and delete
SpecBatch == Init /\ [][NextBatch]_vars

\* ----------------------------------------------------------------- queries
QueryOps == {"readAll", "find", "findOne", "count", "countFiltered"}

\* readAll(collection), find, findOne, countFiltered(collection, filter) and
\* count(collection): the call is issued and starts fs.access(dirPath)
StartQuery(t, op, c, fid) ==
    /\ FreeSlot(t)
    /\ opsStarted < MaxOps
    /\ op \in {"readAll", "count"} => fid = 1
    /\ opsStarted' = opsStarted + 1
    /\ tasks' = [tasks EXCEPT ![t] =
                    [NewCall(op, <<Item("query", c, "", JUndefined)>>, "none", "dirAccess")
                        EXCEPT !.fid = fid, !.solo = Quiet]]
    /\ UNCHANGED <<options, dirs, files, lockedFiles, last>>

\* readAll, count: fs.access(dirPath) returns; an empty Map or 0 if the
\* directory is missing
DirAccess(t) ==
    /\ tasks[t].pc = "dirAccess"
    /\ LET rec == tasks[t]
       IN tasks' = [tasks EXCEPT ![t] =
                       IF getCollectionDir(rec.c) \in dirs THEN [rec EXCEPT !.pc = "readdir"]
                       ELSE IF rec.op = "count" THEN Done(rec, JNum(0), "none")
                       ELSE QueryEnd(rec)]
    /\ UNCHANGED <<options, dirs, files, lockedFiles, opsStarted, last>>

\* readAll, count: fs.readdir(dirPath) returns (ENOENT if the directory is
\* gone) and the names that end with '.json' are kept; count returns their
\* number, readAll starts on the first of them
Readdir(t) ==
    /\ tasks[t].pc = "readdir"
    /\ LET rec == tasks[t]
           names == SelectSeq(readdir(files, rec.c), endsWithJson)
       IN tasks' = [tasks EXCEPT ![t] =
                       IF getCollectionDir(rec.c) \notin dirs
                       THEN Settle(rec, JUndefined, "enoent")
                       ELSE IF rec.op = "count" THEN Done(rec, JNum(Len(names)), "none")
                       ELSE ReadNext([rec EXCEPT !.listing = names])]
    /\ UNCHANGED <<options, dirs, files, lockedFiles, opsStarted, last>>

\* listCollections(): the call is issued; fs.access(this.basePath) and
\* fs.readdir(this.basePath) follow (without basePath the result is [], as
\* it is for a basePath without collections)
StartListCollections(t) ==
    /\ FreeSlot(t)
    /\ opsStarted < MaxOps
    /\ opsStarted' = opsStarted + 1
    /\ tasks' = [tasks EXCEPT ![t] =
                    [NewCall("listCollections", <<Item("query", "", "", JUndefined)>>,
                             "none", "baseReaddir")
                        EXCEPT !.solo = Quiet]]
    /\ UNCHANGED <<options, dirs, files, lockedFiles, last>>

\* listCollections: the loop goes to the next entry, or returns result
StatNext(rec) ==
    IF rec.listing = <<>> THEN Done(rec, JList(rec.entries), "none")
    ELSE [rec EXCEPT !.c = Head(rec.listing), !.listing = Tail(rec.listing), !.pc = "stat"]

\* listCollections: fs.readdir(this.basePath) returns
BaseReaddir(t) ==
    /\ tasks[t].pc = "baseReaddir"
    /\ tasks' = [tasks EXCEPT ![t] = StatNext([tasks[t] EXCEPT !.listing = readdirBase(dirs)])]
    /\ UNCHANGED <<options, dirs, files, lockedFiles, opsStarted, last>>

\* listCollections: fs.stat(entry) returns (ENOENT if the directory is gone)
\* and the directory is pushed to result
Stat(t) ==
    /\ tasks[t].pc = "stat"
    /\ LET rec == tasks[t]
       IN tasks' = [tasks EXCEPT ![t] =
                       IF getCollectionDir(rec.c) \notin dirs
                       THEN Done(rec, JUndefined, "enoent")
                       ELSE StatNext([rec EXCEPT !.entries = Append(@, rec.c)])]
    /\ UNCHANGED <<options, dirs, files, lockedFiles, opsStarted, last>>

\* --------------------------------------------------------- dropCollection
\* dropCollection(collection): the call is issued and starts fs.access(dirPath)
StartDropCollection(t, c) ==
    /\ FreeSlot(t)
    /\ opsStarted < MaxOps
    /\ opsStarted' = opsStarted + 1
    /\ tasks' = [tasks EXCEPT ![t] =
                    [NewCall("dropCollection", <<Item("drop", c, "", JUndefined)>>,
                             "none", "dropAccess")
                        EXCEPT !.solo = Quiet]]
    /\ UNCHANGED <<options, dirs, files, lockedFiles, last>>

\* dropCollection: fs.access(dirPath) returns; false if the directory is
\* missing, otherwise the first pass through acquireLock(dirPath) follows
DropAccess(t) ==
    /\ tasks[t].pc = "dropAccess"
    /\ LET rec == tasks[t]
           r == IF getCollectionDir(rec.c) \notin dirs
                THEN ItemEnd(rec, JFalse, "none", lockedFiles)
                ELSE acquireLock(rec, lockedFiles)
       IN /\ tasks' = [tasks EXCEPT ![t] = r.task]
          /\ lockedFiles' = r.locked
    /\ UNCHANGED <<options, dirs, files, opsStarted, last>>

\* a faulty variant of rm: everything under basePath is removed
rmEverything(fs, c) == [p \in AllPaths |-> Absent]
\* fs.rm(dirPath, { recursive: true, force: true }): the files left
rm(fs, c) == [p \in AllPaths |-> IF DirOf(p) = c THEN Absent ELSE fs[p]]

\* dropCollection: fs.rm(dirPath, { recursive: true, force: true }) returns,
\* having removed the directory and all it held (no error if it was gone
\* already), and the finally clause releases the lock.  The removal is one
\* step: what another call sees of a directory half removed is not modelled.
Rm(t) ==
    /\ tasks[t].pc = "rm"
    /\ LET rec == tasks[t]
           r == ItemEnd([rec EXCEPT !.touched = TRUE], JTrue, "none",
                        releaseLock(lockedFiles, lockKey(LockTarget(rec))))
       IN /\ files' = rm(files, rec.c)
          /\ dirs' = dirs \ {getCollectionDir(rec.c)}
          /\ last' = [p \in DocPaths |->
                         IF files[p] # files'[p]
                         THEN [n |-> rec.n, data |-> JUndefined] ELSE last[p]]
          /\ tasks' = [u \in Tasks |->
                          IF u = t THEN r.task
                          ELSE IF /\ tasks[u].op = "read"
                                  /\ tasks[u].pc \notin {"idle", "done"}
                                  /\ files[PathOf(tasks[u])] # files'[PathOf(tasks[u])]
                          THEN [tasks[u] EXCEPT !.seen = @ \cup {Absent}]
                          ELSE tasks[u]]
          /\ lockedFiles' = r.locked
    /\ UNCHANGED <<options, opsStarted>>

\* dropCollection beside writes and deletes of the collection's documents:
\* the calls run concurrently
NextDrop ==
    \E t \in Tasks :
        \/ \E id \in Ids : StartWrite(t, "c", id, docA, "none")
        \/ StartDelete(t, "c", "x")
        \/ StartDropCollection(t, "c")
        \/ EnsureAccess(t)
        \/ Mkdir(t)
        \/ Wake(t)
        \/ WriteOpen(t)
        \/ WriteFinish(t)
        \/ Rename(t)
        \/ DeleteAccess(t)
        \/ Unlink(t)
        \/ DropAccess(t)
        \/ Rm(t)
        \/ FsCallFails(t)
        \/ Return(t)

\* the Database with dropCollection, write and delete
SpecDrop == Init /\ [][NextDrop]_vars

\* ------------------------------------------- the queries and their stores
\* What basePath holds when the Database is constructed: nothing; documents
\* in two collections; a document that write(c, x, null) stored; a document
\* file that was damaged outside the program.
InitStoresQuery ==
    {[p \in AllPaths |-> Absent],
     [p \in AllPaths |->
        CASE p = filePath("c", "x") -> JSONstringify(docA)
          [] p = filePath("c", "y") -> JSONstringify(docB)
          [] p = filePath("d", "x") -> JSONstringify(docB)
          [] OTHER -> Absent],
     [p \in AllPaths |->
        CASE p = filePath("c", "x") -> JSONstringify(JNull)
          [] p = filePath("c", "y") -> JSONstringify(docA)
          [] OTHER -> Absent],
     [p \in AllPaths |->
        CASE p = filePath("c", "x") -> JSONstringify(docA)
          [] p = filePath("c", "y") -> Partial
          [] OTHER -> Absent]}

InitQuery ==
    /\ files \in InitStoresQuery
    /\ dirs = {getCollectionDir(DirOf(p)) : p \in {q \in AllPaths : files[q] # Absent}}
    /\ lockedFiles = {}
    /\ tasks = [t \in Tasks |-> IdleTask]
    /\ opsStarted = 0
    /\ options = DefaultOptions
    /\ last = [p \in DocPaths |-> [n |-> 0, data |-> JUndefined]]

\* the (data, schema) pairs write is called with beside the queries
QueryWriteInputs == {<<JNull, "none">>, <<docA, "none">>}

\* The caller issues its changing calls (write, delete, dropCollection) one
\* at a time, so that none of them waits for a lock; reads and queries run
\* beside them.
NoMutator ==
    \A u \in Tasks :
        \/ tasks[u].pc \in {"idle", "done"}
        \/ tasks[u].op \in QueryOps \cup {"read", "listCollections"}

WriteAlone(t, c, id, d, schema) == NoMutator /\ StartWrite(t, c, id, d, schema)
DeleteAlone(t, c, id) == NoMutator /\ StartDelete(t, c, id)
DropAlone(t, c) == NoMutator /\ StartDropCollection(t, c)

NextQuery ==
    \E t \in Tasks :
        \/ \E c \in Collections, id \in Ids, w \in QueryWriteInputs :
               WriteAlone(t, c, id, w[1], w[2])
        \/ \E c \in Collections, id \in Ids : DeleteAlone(t, c, id)
        \/ \E c \in Collections : DropAlone(t, c)
        \/ \E op \in QueryOps, c \in Collections, fid \in QueryFilters :
               StartQuery(t, op, c, fid)
        \/ StartListCollections(t)
        \/ \E c \in Collections, id \in Ids : StartRead(t, c, id, "none")
        \/ EnsureAccess(t)
        \/ Mkdir(t)
        \/ WriteOpen(t)
        \/ WriteFinish(t)
        \/ Rename(t)
        \/ DeleteAccess(t)
        \/ Unlink(t)
        \/ DropAccess(t)
        \/ Rm(t)
        \/ DirAccess(t)
        \/ Readdir(t)
        \/ BaseReaddir(t)
        \/ Stat(t)
        \/ ReadAccess(t)
        \/ ReadFile(t)
        \/ FsCallFails(t)
        \/ Return(t)

\* the Database with its queries, its reads and one changing call at a time
SpecQuery == InitQuery /\ [][NextQuery]_vars

\* ------------------------------------------------ queries on a store at rest
\* What basePath holds when the Database is constructed: documents with and
\* without an age, with a tags array of one or two elements and without one.
InitStoresRest ==
    {[p \in AllPaths |->
        CASE p = filePath("c", "x") -> JSONstringify(docA)
          [] p = filePath("c", "y") -> JSONstringify(docT)
          [] OTHER -> Absent],
     [p \in AllPaths |->
        CASE p = filePath("c", "x") -> JSONstringify(docT)
          [] p = filePath("c", "y") -> JSONstringify(docU)
          [] OTHER -> Absent],
     [p \in AllPaths |->
        CASE p = filePath("c", "x") -> JSONstringify(docU)
          [] p = filePath("c", "y") -> JSONstringify(docB)
          [] OTHER -> Absent]}

InitRest ==
    /\ files \in InitStoresRest
    /\ dirs = {getCollectionDir(DirOf(p)) : p \in {q \in AllPaths : files[q] # Absent}}
    /\ lockedFiles = {}
    /\ tasks = [t \in Tasks |-> IdleTask]
    /\ opsStarted = 0
    /\ options = DefaultOptions
    /\ last = [p \in DocPaths |-> [n |-> 0, data |-> JUndefined]]

NextRest ==
    \E t \in Tasks :
        \/ \E op \in {"readAll", "find"}, c \in Collections, fid \in RestFilters :
               StartQuery(t, op, c, fid)
        \/ DirAccess(t)
        \/ Readdir(t)
        \/ ReadAccess(t)
        \/ ReadFile(t)
        \/ Return(t)

\* the Database with find and readAll only: nothing changes the store
SpecRest == InitRest /\ [][NextRest]_vars

\* ------------------------------------------------- batchRead and read
\* the operations batchRead is called with: one with an id, one with a
\* filter and one with neither, in two orders and on two collections
BatchReadInputs ==
    {<<ReadOp("c", "y", 0), ReadOp("c", "", 2), ReadOp("c", "", 0)>>,
     <<ReadOp("c", "", 0), ReadOp("c", "x", 0), ReadOp("d", "", 1)>>}

\* batchRead(operations): the call is issued and the first operation starts
StartBatchRead(t, ops) ==
    /\ FreeSlot(t)
    /\ opsStarted < MaxOps
    /\ opsStarted' = opsStarted + 1
    /\ tasks' = [tasks EXCEPT ![t] =
                    BatchReadStep([IdleTask EXCEPT !.op = "batchRead", !.n = opsStarted + 1,
                                                  !.input = ops, !.rest = ops,
                                                  !.solo = Quiet])]
    /\ UNCHANGED <<options, dirs, files, lockedFiles, last>>

\* the stores of the queries, read by a Database constructed with or
\* without validateOnRead
InitRead ==
    /\ files \in InitStoresQuery
    /\ dirs = {getCollectionDir(DirOf(p)) : p \in {q \in AllPaths : files[q] # Absent}}
    /\ lockedFiles = {}
    /\ tasks = [t \in Tasks |-> IdleTask]
    /\ opsStarted = 0
    /\ options \in OptionSets
    /\ last = [p \in DocPaths |-> [n |-> 0, data |-> JUndefined]]

NextRead ==
    \E t \in Tasks :
        \/ \E ops \in BatchReadInputs : StartBatchRead(t, ops)
        \/ \E c \in AllCollections, id \in Ids, schema \in Schemas : StartRead(t, c, id, schema)
        \/ \E op \in {"readAll", "find"}, c \in AllCollections, fid \in {1, 2} :
               StartQuery(t, op, c, fid)
        \/ DirAccess(t)
        \/ Readdir(t)
        \/ ReadAccess(t)
        \/ ReadFile(t)
        \/ Return(t)

\* the Database with batchRead, read, readAll and find: nothing changes the
\* store
SpecRead == InitRead /\ [][NextRead]_vars

\* count(collection) in a state where nothing changes meanwhile: the
\* directory entries that end with '.json'
count(ds, fs, c) ==
    IF getCollectionDir(c) \notin ds THEN 0
    ELSE Cardinality({p \in AllPaths :
                        DirOf(p) = c /\ fs[p] # Absent /\ endsWithJson(p)})

\* ------------------------------------------------------------ properties
InCS(rec) == rec.pc \in {"writeTmp", "writing", "rename", "unlink"}
Settled(rec, op) == rec.op = op /\ rec.pc = "done"
\* the value readJSONFile returns for a file content
ReadValue(content) == IF content = Absent THEN JNull ELSE JSONparse(content)

\* C1: when two writes to one path, neither rejected by its validator nor
\* failed by the filesystem, have both settled and one of them was the last
\* call to change the file, the file holds exactly the text of one of the two
\* payloads: not a mix, not a truncation, not nothing.
C1_TwoWritersOneWhole ==
    \A t, u \in Tasks :
        (/\ t # u
         /\ Settled(tasks[t], "write") /\ Settled(tasks[u], "write")
         /\ PathOf(tasks[t]) = PathOf(tasks[u])
         /\ tasks[t].err \in {"none", "lock", "enoent"}
         /\ tasks[u].err \in {"none", "lock", "enoent"}
         /\ last[PathOf(tasks[t])].n \in {tasks[t].n, tasks[u].n})
        => files[PathOf(tasks[t])] \in
              {JSONstringify(tasks[t].data), JSONstringify(tasks[u].data)}

\* two writes of different payloads to one path have both succeeded, one of
\* them after waiting for the lock the other held
C1_Witness ==
    \E t, u \in Tasks :
        /\ t # u
        /\ Settled(tasks[t], "write") /\ Settled(tasks[u], "write")
        /\ PathOf(tasks[t]) = PathOf(tasks[u])
        /\ tasks[t].err = "none" /\ tasks[u].err = "none"
        /\ tasks[t].data # tasks[u].data
        /\ tasks[u].waited
        /\ last[PathOf(tasks[t])].n = tasks[u].n
        /\ files[PathOf(tasks[t])] = JSONstringify(tasks[u].data)

\* C2: for each file path at most one task is inside a critical section
\* (temporary write and rename, or unlink), whether it was entered by write,
\* delete, writeMany, deleteMany or batchWrite, and that task's path is marked
\* held in lockedFiles.
C2_MutualExclusion ==
    /\ \A t, u \in Tasks :
          (t # u /\ InCS(tasks[t]) /\ InCS(tasks[u]))
          => PathOf(tasks[t]) # PathOf(tasks[u])
    /\ \A t \in Tasks : InCS(tasks[t]) => lockKey(PathOf(tasks[t])) \in lockedFiles

\* a call of several items is inside the critical section of a path while
\* another call, which found the lock held, sleeps
C2_Witness ==
    \E t, u \in Tasks :
        /\ t # u
        /\ InCS(tasks[t])
        /\ tasks[t].op \in {"writeMany", "deleteMany", "batchWrite"}
        /\ tasks[u].pc = "sleep" /\ tasks[u].attempts >= 2
        /\ PathOf(tasks[t]) = PathOf(tasks[u])

\* C3: a read during which the file was never removed does not fail, and it
\* returns the value of a whole content the file held when the read was issued
\* or took while it ran (null only for a file that did not exist); the
\* document file never holds a partly written text.
C3_ReadSeesWhole ==
    \A t \in Tasks :
        Settled(tasks[t], "read") =>
            /\ Partial \notin (tasks[t].seen \cup {tasks[t].before})
            /\ tasks[t].err \in {"none", "enoent"}
            /\ Absent \notin tasks[t].seen => tasks[t].err = "none"
            /\ tasks[t].err = "none" =>
                  tasks[t].result \in
                      {ReadValue(x) : x \in (tasks[t].seen \cup {tasks[t].before}) \ {Partial}}

\* a read issued while the file held one document has returned the different
\* document that a write renamed into place while the read ran
C3_Witness ==
    \E t \in Tasks :
        /\ Settled(tasks[t], "read")
        /\ tasks[t].err = "none"
        /\ tasks[t].before # Absent
        /\ tasks[t].seen # {}
        /\ tasks[t].before \notin tasks[t].seen
        /\ Absent \notin tasks[t].seen
        /\ tasks[t].result # JSONparse(tasks[t].before)
        /\ tasks[t].result \in {JSONparse(x) : x \in tasks[t].seen}

\* C4: a lock check fails only while another task is inside the critical
\* section of the very same file path, never because of a call on another id
\* of the collection, and a call times out only after maxAttempts such
\* checks; the documents written by settled successful writes to distinct
\* ids are all counted in their collection.
C4_ContendedBySamePath ==
    \A t \in Tasks :
        /\ tasks'[t].attempts > tasks[t].attempts
           => \E u \in Tasks \ {t} :
                 InCS(tasks[u]) /\ PathOf(tasks[u]) = PathOf(tasks[t])
        /\ (tasks'[t].err = "lock" /\ tasks[t].err # "lock")
           => tasks[t].attempts = maxAttempts
C4_DistinctWritesCounted ==
    \A c \in Collections :
        count(dirs, files, c) >=
            Cardinality({PathOf(tasks[t]) : t \in
                {u \in Tasks : /\ Settled(tasks[u], "write")
                               /\ tasks[u].c = c
                               /\ tasks[u].err = "none"
                               /\ last[PathOf(tasks[u])].n = tasks[u].n}})
C4_PerPathLocks == [][C4_ContendedBySamePath]_vars /\ []C4_DistinctWritesCounted

\* two writes to different ids of one collection have both succeeded without
\* either of them ever finding the lock held, and the collection counts two
\* documents
C4_Witness ==
    \E t, u \in Tasks :
        /\ t # u
        /\ Settled(tasks[t], "write") /\ Settled(tasks[u], "write")
        /\ tasks[t].c = tasks[u].c /\ tasks[t].id # tasks[u].id
        /\ tasks[t].err = "none" /\ tasks[u].err = "none"
        /\ ~tasks[t].waited /\ ~tasks[u].waited
        /\ count(dirs, files, tasks[t].c) = 2

\* C5: a read that ran while the file held, unchanged, what the last write to
\* it wrote returns the very value given to that write, for every value JSON
\* can represent.
C5_RoundTrip ==
    \A t \in Tasks :
        LET rec == tasks[t]
            p == PathOf(rec)
        IN (/\ Settled(rec, "read")
            /\ rec.seen = {}
            /\ files[p] = rec.before
            /\ last[p].n > 0
            /\ last[p].data # JUndefined
            /\ JSONRepresentable(last[p].data))
           => /\ rec.err = "none"
              /\ rec.result = last[p].data

\* a read has returned the document a write stored before the read was issued
C5_Witness ==
    \E t \in Tasks :
        /\ Settled(tasks[t], "read")
        /\ tasks[t].seen = {}
        /\ last[PathOf(tasks[t])].n > 0
        /\ last[PathOf(tasks[t])].n < tasks[t].n
        /\ last[PathOf(tasks[t])].data = docA
        /\ tasks[t].result = docA

\* C6: whenever the last call to change a document file was a write, the file
\* holds exactly the text of that write's payload: the properties of the
\* parsed content are those of the payload and nothing of an earlier payload
\* is left.
C6_ReplacedWholesale ==
    \A p \in DocPaths :
        (last[p].n > 0 /\ last[p].data # JUndefined)
        => /\ files[p] = JSONstringify(last[p].data)
           /\ DOMAIN JSONparse(files[p]).f = DOMAIN last[p].data.f

\* a write of docB (no age) has replaced what a settled write of docA (with
\* an age) stored at the same path before it
C6_Witness ==
    \E t, u \in Tasks :
        /\ Settled(tasks[t], "write") /\ Settled(tasks[u], "write")
        /\ PathOf(tasks[t]) = PathOf(tasks[u])
        /\ tasks[t].err = "none" /\ tasks[u].err = "none"
        /\ tasks[t].data = docA /\ tasks[u].data = docB
        /\ ~tasks[u].waited
        /\ last[PathOf(tasks[u])].n = tasks[u].n
        /\ files[PathOf(tasks[u])] = JSONstringify(docB)

\* C7: no step of a write call whose validator rejects its data creates a
\* directory, creates or changes a file, or takes a lock.
C7_RejectedWriteStep ==
    \A t \in Tasks :
        (/\ tasks[t].op = "write"
         /\ ~SchemaAccepts(tasks[t].schema, tasks[t].data)
         /\ tasks'[t] # tasks[t])
        => /\ dirs' = dirs
           /\ files' = files
           /\ lockedFiles' = lockedFiles
C7_RejectedWriteNoIO == [][C7_RejectedWriteStep]_vars

\* C8: when the write of the temporary file fails, the call fails, the lock
\* is released and the document file holds what it held before the call
\* began to write.
C8_TmpWriteFailStep ==
    \A t \in Tasks :
        (/\ tasks[t].pc \in {"writeTmp", "writing"}
         /\ tasks'[t].pc = "done")
        => /\ tasks'[t].err # "none"
           /\ files'[PathOf(tasks[t])] =
                 (IF tasks[t].pc = "writing" THEN tasks[t].before
                  ELSE files[PathOf(tasks[t])])
           /\ files'[PathOf(tasks[t])] \in {Absent} \cup {JSONstringify(d) : d \in Data}
           /\ last' = last
           /\ lockKey(PathOf(tasks[t])) \notin lockedFiles'
C8_TmpWriteFailKeepsDoc == [][C8_TmpWriteFailStep]_vars

\* a write has failed while writing its temporary file, which is left partly
\* written, and the document file still holds a whole document
C8_Witness ==
    \E t \in Tasks :
        /\ Settled(tasks[t], "write")
        /\ tasks[t].err = "io"
        /\ tasks[t].failedAt = "writing"
        /\ files[tempPath(PathOf(tasks[t]))] = Partial
        /\ files[PathOf(tasks[t])] \in {JSONstringify(d) : d \in Data}
        /\ files[PathOf(tasks[t])] = tasks[t].before

\* C9: the step in which a write or delete gives up waiting for the lock
\* changes no file and leaves lockedFiles as it is, and the call has then
\* written, renamed and unlinked nothing.
C9_TimeoutStep ==
    \A t \in Tasks :
        (tasks'[t].err = "lock" /\ tasks[t].err # "lock")
        => /\ tasks[t].op \in {"write", "delete"}
           /\ files' = files
           /\ lockedFiles' = lockedFiles
           /\ ~tasks'[t].touched
           /\ last' = last
C9_TimeoutNoEffect == [][C9_TimeoutStep]_vars

\* a delete has failed with the lock timeout while the writer that holds the
\* lock of its path is still inside its critical section
C9_Witness ==
    \E t, u \in Tasks :
        /\ t # u
        /\ Settled(tasks[t], "delete") /\ tasks[t].err = "lock"
        /\ InCS(tasks[u]) /\ tasks[u].op = "write"
        /\ PathOf(tasks[u]) = PathOf(tasks[t])
        /\ lockKey(PathOf(tasks[t])) \in lockedFiles

\* C10: a task waiting in acquireLock always leaves it, holding the lock or
\* with the timeout error, whatever the holder does; it checks the lock only
\* while attempts < maxAttempts, so at most maxAttempts times.
C10_CheckStep ==
    \A t \in Tasks :
        (tasks[t].pc = "sleep" /\ tasks'[t] # tasks[t] /\ tasks'[t].err # "lock")
        => tasks[t].attempts < maxAttempts
C10_AttemptsBounded == \A t \in Tasks : tasks[t].attempts <= maxAttempts
C10_AcquireTerminates ==
    /\ \A t \in Tasks :
          (tasks[t].pc = "sleep") ~>
              (InCS(tasks[t]) \/ (tasks[t].pc = "done" /\ tasks[t].err = "lock"))
    /\ []C10_AttemptsBounded
    /\ [][C10_CheckStep]_vars

\* a task has found the lock held maxAttempts times
C10_Witness ==
    \E t \in Tasks : tasks[t].pc = "sleep" /\ tasks[t].attempts = maxAttempts

\* C11: a delete that finds no file at its path settles in that step with
\* false and no error, and changes no file, no directory and no lock; issuing
\* a delete changes nothing either, so repeating it gives the same result and
\* state, also when the collection directory does not exist.
C11_MissingDeleteStep ==
    \A t \in Tasks :
        /\ (/\ tasks[t].op = "delete" /\ tasks[t].pc = "access"
            /\ files[PathOf(tasks[t])] = Absent
            /\ tasks'[t] # tasks[t])
           => /\ tasks'[t].pc = "done"
              /\ tasks'[t].result = JFalse
              /\ tasks'[t].err = "none"
              /\ files' = files /\ dirs' = dirs
              /\ lockedFiles' = lockedFiles /\ last' = last
        /\ (tasks[t].pc = "idle" /\ tasks'[t].op = "delete")
           => files' = files /\ dirs' = dirs /\ lockedFiles' = lockedFiles
C11_DeleteMissingIsFalse == [][C11_MissingDeleteStep]_vars

\* two deletes of one document of a collection that does not exist have both
\* returned false, and there is still no directory and no file
C11_Witness ==
    \E t, u \in Tasks :
        /\ t # u
        /\ Settled(tasks[t], "delete") /\ Settled(tasks[u], "delete")
        /\ PathOf(tasks[t]) = PathOf(tasks[u])
        /\ tasks[t].result = JFalse /\ tasks[u].result = JFalse
        /\ tasks[t].err = "none" /\ tasks[u].err = "none"
        /\ dirs = {}
        /\ \A p \in AllPaths : files[p] = Absent

\* C12: when two deletes of one document, both issued while its file
\* existed and one right after the other, have settled without a failure of
\* the filesystem and without a lock timeout, neither has raised, one has
\* returned true and the other false.
C12_ConcurrentDeletes ==
    \A t, u \in Tasks :
        (/\ Settled(tasks[t], "delete") /\ Settled(tasks[u], "delete")
         /\ PathOf(tasks[t]) = PathOf(tasks[u])
         /\ tasks[u].n = tasks[t].n + 1
         /\ tasks[t].before # Absent /\ tasks[u].before # Absent
         /\ tasks[t].err \notin {"io", "lock"}
         /\ tasks[u].err \notin {"io", "lock"})
        => /\ tasks[t].err = "none" /\ tasks[u].err = "none"
           /\ {tasks[t].result, tasks[u].result} = {JTrue, JFalse}

\* C13: a read of a document that existed when the read was issued, and
\* during which the file was changed by nothing but its removal, does not
\* raise and returns the document or null.
C13_ReadDuringDelete ==
    \A t \in Tasks :
        (/\ Settled(tasks[t], "read")
         /\ tasks[t].before.t = "text"
         /\ tasks[t].seen \subseteq {Absent})
        => /\ tasks[t].err = "none"
           /\ tasks[t].result \in {JSONparse(tasks[t].before), JNull}

\* C14: a deleteMany that has settled has not raised, whatever happened to
\* one of its ids (an unlink that failed, a file removed by another task
\* after the existence check, a lock timeout); it has gone through all its
\* ids and returned the number of files it unlinked.
C14_DeleteManyIndependent ==
    \A t \in Tasks :
        Settled(tasks[t], "deleteMany")
        => /\ tasks[t].err = "none"
           /\ tasks[t].rest = <<>>
           /\ tasks[t].result = JNum(tasks[t].deleted)

\* C15: a readAll that has got its directory listing and has settled has
\* not raised, whatever listed file was malformed or removed before it was
\* read, and has returned a mapping.
C15_ReadAllTolerant ==
    \A t \in Tasks :
        (Settled(tasks[t], "readAll") /\ tasks[t].file # <<>>)
        => /\ tasks[t].err = "none"
           /\ tasks[t].result.t = "map"

\* call u was issued right after call t, when t had settled and no call was
\* in flight, and has settled too
IssuedAfter(t, u) ==
    /\ tasks[t].pc = "done" /\ tasks[u].pc = "done"
    /\ tasks[u].solo
    /\ tasks[u].n = tasks[t].n + 1

\* the same, t having been issued when no call was in flight either: with
\* both still held by their tasks, nothing has changed since t was issued
RightAfter(t, u) == IssuedAfter(t, u) /\ tasks[t].solo

\* C16: on a store that stays as it is, count returns the number of entries
\* readAll returns, and countFiltered the number of entries find returns for
\* the same filter.
C16_CountIsReadAllSize ==
    \A t, u \in Tasks :
        (/\ RightAfter(t, u) \/ RightAfter(u, t)
         /\ tasks[t].c = tasks[u].c
         /\ tasks[t].err = "none" /\ tasks[u].err = "none")
        => /\ (tasks[t].op = "count" /\ tasks[u].op = "readAll")
              => tasks[t].result = JNum(Len(tasks[u].result.entries))
           /\ (/\ tasks[t].op = "countFiltered" /\ tasks[u].op = "find"
               /\ tasks[t].fid = tasks[u].fid)
              => tasks[t].result = JNum(Len(tasks[u].result.entries))

\* C17: no query ever lists, reads or returns a temporary file as a document,
\* and count returns the number of document files of the directory, whatever
\* temporary files are in it.
C17_QueryFilesAreDocs ==
    \A t \in Tasks :
        tasks[t].op \in QueryOps
        => /\ \A i \in DOMAIN tasks[t].listing : tasks[t].listing[i] \in DocPaths
           /\ \A i \in DOMAIN tasks[t].entries : tasks[t].entries[i].file \in DocPaths
           /\ tasks[t].pc \in {"readAccess", "readFile"} => tasks[t].file \in DocPaths
C17_CountStep ==
    \A t \in Tasks :
        (tasks[t].op = "count" /\ tasks[t].pc = "readdir" /\ tasks'[t].err = "none"
         /\ tasks'[t] # tasks[t])
        => tasks'[t].result =
              JNum(Cardinality({p \in DocPaths : DirOf(p) = tasks[t].c /\ files[p] # Absent}))
C17_TmpNeverListed == []C17_QueryFilesAreDocs /\ [][C17_CountStep]_vars

\* a write has failed while writing its temporary file, which is left in the
\* directory, and a count issued afterwards has returned the number of the
\* documents alone
C17_Witness ==
    \E t, u \in Tasks :
        /\ IssuedAfter(u, t)
        /\ tasks[u].op = "write" /\ tasks[u].err = "io" /\ tasks[u].failedAt = "writing"
        /\ files[tempPath(PathOf(tasks[u]))] = Partial
        /\ tasks[t].op = "count" /\ tasks[t].c = tasks[u].c
        /\ tasks[t].result = JNum(2)

\* C18: a dropCollection that finds no directory settles with false and
\* changes nothing; the removal takes the directory and every file of the
\* collection, leaves the other collections as they are and gives true; and
\* a query or read issued right after a drop that gave true finds nothing:
\* an empty mapping, 0, null, and a list of collections without the one
\* dropped.
C18_DropStep ==
    \A t \in Tasks :
        /\ (/\ tasks[t].pc = "dropAccess" /\ getCollectionDir(tasks[t].c) \notin dirs
            /\ tasks'[t] # tasks[t])
           => /\ tasks'[t].pc = "done" /\ tasks'[t].result = JFalse
              /\ tasks'[t].err = "none"
              /\ files' = files /\ dirs' = dirs /\ lockedFiles' = lockedFiles
        /\ (/\ tasks[t].pc = "dropAccess" /\ getCollectionDir(tasks[t].c) \in dirs
            /\ tasks[t].solo
            /\ tasks'[t] # tasks[t])
           => tasks'[t].pc = "rm"
        /\ (tasks[t].pc = "rm" /\ tasks'[t].pc = "done" /\ tasks'[t].err = "none")
           => /\ tasks'[t].result = JTrue
              /\ getCollectionDir(tasks[t].c) \notin dirs'
              /\ \A p \in AllPaths :
                    files'[p] = IF DirOf(p) = tasks[t].c THEN Absent ELSE files[p]
              /\ dirs' \cup {getCollectionDir(tasks[t].c)} = dirs
              /\ lockedFiles' = lockedFiles \ {getCollectionDir(tasks[t].c)}
C18_AfterDrop ==
    \A t, u \in Tasks :
        (/\ IssuedAfter(t, u)
         /\ tasks[t].op = "dropCollection" /\ tasks[t].result = JTrue
         /\ tasks[u].op = "listCollections" \/ tasks[u].c = tasks[t].c)
        => /\ tasks[u].err = "none"
           /\ tasks[u].op \in {"readAll", "find"} => tasks[u].result = JMap(<<>>)
           /\ tasks[u].op \in {"count", "countFiltered"} => tasks[u].result = JNum(0)
           /\ tasks[u].op \in {"read", "findOne"} => tasks[u].result = JNull
           /\ tasks[u].op = "listCollections"
              => \A i \in DOMAIN tasks[u].result.names :
                    tasks[u].result.names[i] # tasks[t].c
C18_DropCollection == [][C18_DropStep]_vars /\ []C18_AfterDrop

\* a collection with two documents has been dropped with true, a readAll
\* issued afterwards has returned an empty mapping, and the document of the
\* other collection is still there
C18_Witness ==
    \E t, u \in Tasks :
        /\ RightAfter(t, u)
        /\ tasks[t].op = "dropCollection" /\ tasks[t].result = JTrue
        /\ last[filePath("c", "x")].n = tasks[t].n
        /\ last[filePath("c", "y")].n = tasks[t].n
        /\ tasks[u].op = "readAll" /\ tasks[u].c = tasks[t].c
        /\ tasks[u].result = JMap(<<>>)
        /\ files[filePath("d", "x")] = JSONstringify(docB)

\* C19: on a store that stays as it is, findOne returns null exactly when
\* find returns no entry for the same filter, and otherwise the id and data
\* of the first entry find returns.
C19_FindOneIsFirstOfFind ==
    \A t, u \in Tasks :
        (/\ RightAfter(t, u) \/ RightAfter(u, t)
         /\ tasks[t].op = "find" /\ tasks[u].op = "findOne"
         /\ tasks[t].c = tasks[u].c /\ tasks[t].fid = tasks[u].fid
         /\ tasks[t].err = "none" /\ tasks[u].err = "none")
        => /\ tasks[u].result = JNull <=> tasks[t].result.entries = <<>>
           /\ tasks[t].result.entries # <<>>
              => tasks[u].result = JPair(Head(tasks[t].result.entries))

\* find has returned the two documents of the collection and findOne, for
\* the same filter, the first of them
C19_Witness ==
    \E t, u \in Tasks :
        /\ RightAfter(t, u)
        /\ tasks[t].op = "find" /\ tasks[u].op = "findOne"
        /\ tasks[t].c = tasks[u].c /\ tasks[t].fid = tasks[u].fid
        /\ tasks[t].err = "none" /\ tasks[u].err = "none"
        /\ Len(tasks[t].result.entries) = 2
        /\ tasks[u].result.t = "pair" /\ tasks[u].result.id = "x"

\* C20: every document find returns for a filter that has a logical operator
\* satisfies each logical clause of the filter and each of its sibling field
\* predicates.
C20_SiblingsHold ==
    \A t \in Tasks :
        (/\ Settled(tasks[t], "find") /\ tasks[t].err = "none"
         /\ DOMAIN FilterOf(tasks[t]) \cap LogicalKeys # {})
        => \A i \in DOMAIN tasks[t].result.entries :
              LET doc == tasks[t].result.entries[i].data
                  f == FilterOf(tasks[t])
              IN /\ FieldsMatch(doc, f)
                 /\ "$and" \in DOMAIN f
                    => \A k \in DOMAIN f["$and"] : matchesDocument(doc, f["$and"][k])
                 /\ "$or" \in DOMAIN f
                    => \E k \in DOMAIN f["$or"] : matchesDocument(doc, f["$or"][k])
                 /\ "$not" \in DOMAIN f => ~matchesDocument(doc, f["$not"])

\* every operator of ops holds on its own: as the only operator of a filter
EachOperatorHolds(value, ops) ==
    \A k \in DOMAIN ops : matchesFilter(value, (k :> ops[k]))

\* the field a filter of one field predicate is about
FieldOf(filter) == CHOOSE key \in DOMAIN filter : TRUE

\* C21: an operator set on one field is conjunctive: find with a filter of two
\* operators on one field returns exactly the documents on whose field value
\* every operator present holds on its own.
C21_OperatorsConjoin ==
    \A t \in Tasks :
        (/\ Settled(tasks[t], "find") /\ tasks[t].err = "none"
         /\ tasks[t].fid \in TwoOperatorFilters)
        => LET f == FilterOf(tasks[t])
           IN tasks[t].result.entries =
                  SelectSeq(tasks[t].entries,
                            LAMBDA e : EachOperatorHolds(Prop(e.data, FieldOf(f)),
                                                         f[FieldOf(f)].f))

\* C22: find with {tags: {$arraySize: n}} returns exactly the documents whose
\* tags field is an array of length n; a document whose field is absent, null
\* or not an array is never returned.
C22_ArraySizeExact ==
    \A t \in Tasks :
        (/\ Settled(tasks[t], "find") /\ tasks[t].err = "none"
         /\ DOMAIN FilterOf(tasks[t]) = {"tags"}
         /\ DOMAIN FilterOf(tasks[t])["tags"].f = {"$arraySize"})
        => tasks[t].result.entries =
               SelectSeq(tasks[t].entries,
                         LAMBDA e :
                             /\ Prop(e.data, "tags").t = "arr"
                             /\ Len(Prop(e.data, "tags").a)
                                    = FilterOf(tasks[t])["tags"].f["$arraySize"].n)

\* the filters {$and: []} and {$or: []}
IsAndOfNone(filter) == DOMAIN filter = {"$and"} /\ Len(filter["$and"]) = 0
IsOrOfNone(filter) == DOMAIN filter = {"$or"} /\ Len(filter["$or"]) = 0

\* C23: {$and: []} matches every document and {$or: []} matches none: on a
\* store at rest find(c, {$and: []}) returns what readAll(c) returns and
\* find(c, {$or: []}) returns nothing.
C23_EmptyAndOr ==
    /\ \A d \in {docA, docB, docT, docU, JNull, JStr("s")} :
           /\ matchesDocument(d, ("$and" :> <<>>))
           /\ ~matchesDocument(d, ("$or" :> <<>>))
    /\ \A t \in Tasks :
           (Settled(tasks[t], "find") /\ tasks[t].err = "none")
           => /\ IsOrOfNone(FilterOf(tasks[t])) => tasks[t].result = JMap(<<>>)
              /\ IsAndOfNone(FilterOf(tasks[t]))
                 => \A u \in Tasks :
                       (/\ Settled(tasks[u], "readAll") /\ tasks[u].err = "none"
                        /\ tasks[u].c = tasks[t].c)
                       => tasks[t].result = tasks[u].result

\* find(c, {$or: []}) has returned nothing from a collection of two
\* documents, both of which readAll(c) has returned
C23_Witness ==
    \E t, u \in Tasks :
        /\ Settled(tasks[t], "find") /\ tasks[t].err = "none"
        /\ IsOrOfNone(FilterOf(tasks[t]))
        /\ Len(tasks[t].entries) = 2 /\ tasks[t].result = JMap(<<>>)
        /\ Settled(tasks[u], "readAll") /\ tasks[u].err = "none"
        /\ tasks[u].c = tasks[t].c
        /\ Len(tasks[u].result.entries) = 2

\* a batchWrite operation that is neither a write with id and data nor a
\* delete with id
Malformed(o) ==
    ~ \/ o.kind = "write" /\ o.id # "" /\ o.data # JUndefined
      \/ o.kind = "delete" /\ o.id # ""

PlaceOf(input, o) == CHOOSE k \in DOMAIN input : input[k] = o
FirstOf(input, c) ==
    CHOOSE k \in DOMAIN input :
        input[k].c = c /\ \A m \in DOMAIN input : input[m].c = c => k <= m

\* the operations answered so far are in execution order: collections in the
\* order of their first appearance, the operations of a collection in input
\* order
InExecutionOrder(input, order) ==
    \A i, j \in DOMAIN order :
        i < j => IF order[i].c = order[j].c
                 THEN PlaceOf(input, order[i]) < PlaceOf(input, order[j])
                 ELSE FirstOf(input, order[i].c) < FirstOf(input, order[j].c)

\* the successful operations of a batch on path p, by their place in order
DoneOn(rec, p) ==
    {k \in DOMAIN rec.order :
        rec.results[k].success /\ filePath(rec.order[k].c, rec.order[k].id) = p}

\* a step in which a batchWrite changes a document changes the document of
\* the operation it answers next
C29_EffectStep ==
    \A t \in Tasks, p \in DocPaths :
        (tasks[t].op = "batchWrite" /\ last'[p] # last[p] /\ last'[p].n = tasks[t].n)
        => /\ p = PathOf(tasks[t])
           /\ Len(tasks'[t].order) > Len(tasks[t].order)
           /\ tasks'[t].order[Len(tasks[t].order) + 1]
                  = Item(tasks[t].kind, tasks[t].c, tasks[t].id, tasks[t].data)

\* a batchWrite has one result per operation answered, in execution order;
\* settled, it has one per input operation, result i is about input
\* operation i if the batch is on one collection, and a document it was the
\* last to change holds what its last successful operation on it left
C29_ResultsInOrder ==
    \A t \in Tasks :
        tasks[t].op = "batchWrite"
        => LET rec == tasks[t]
           IN /\ Len(rec.results) = Len(rec.order)
              /\ \A i \in DOMAIN rec.order : \E k \in DOMAIN rec.input : rec.input[k] = rec.order[i]
              /\ InExecutionOrder(rec.input, rec.order)
              /\ rec.pc = "done"
                 => /\ Len(rec.results) = Len(rec.input)
                    /\ (\A i \in DOMAIN rec.input : rec.input[i].c = rec.input[1].c)
                       => rec.order = rec.input
                    /\ \A p \in DocPaths :
                           last[p].n = rec.n
                           => /\ DoneOn(rec, p) # {}
                              /\ LET k == CHOOSE k \in DoneOn(rec, p) :
                                               \A m \in DoneOn(rec, p) : m <= k
                                 IN files[p] = IF rec.order[k].kind = "write"
                                               THEN JSONstringify(rec.order[k].data)
                                               ELSE Absent

\* C29: batchWrite returns exactly one result per input operation, in
\* execution order (collections by first appearance, input order within a
\* collection), and applies the effects on a document in that order.
C29_BatchWriteOrder == []C29_ResultsInOrder /\ [][C29_EffectStep]_vars

\* a batchWrite whose second operation is on another collection than its
\* first and third has settled: the third was answered second; and the
\* write of the first and the write of the second have succeeded
C29_Witness ==
    \E t \in Tasks :
        /\ Settled(tasks[t], "batchWrite")
        /\ Len(tasks[t].input) = 3
        /\ tasks[t].input[2].c # tasks[t].input[1].c
        /\ tasks[t].order = <<tasks[t].input[1], tasks[t].input[3], tasks[t].input[2]>>
        /\ tasks[t].results[1].success /\ tasks[t].results[3].success
        /\ files[filePath("c", "x")] = JSONstringify(docA)
        /\ last[filePath("d", "x")].n = tasks[t].n

\* the locks the calls in flight hold: one for each call that is between its
\* acquireLock and its releaseLock
HeldLocks == {lockKey(LockTarget(tasks[t])) : t \in {u \in Tasks : InCS(tasks[u])}}

\* C28: every call that acquires a lock releases it before it returns or
\* raises, on success and on every failure: the lock table holds the locks of
\* the calls that are in their critical section and nothing else, so it is
\* empty whenever no call is in flight.
C28_LocksReleased ==
    /\ lockedFiles = HeldLocks
    /\ Quiet => lockedFiles = {}

\* a write or a batchWrite failed on document x in its critical section, and
\* a call issued later has taken the lock of x without waiting and succeeded
C28_Witness ==
    \E t, u \in Tasks :
        /\ tasks[t].pc = "done" /\ tasks[u].pc = "done"
        /\ tasks[t].failedAt \in {"writeTmp", "writing", "rename", "unlink"}
        /\ tasks[u].n > tasks[t].n
        /\ tasks[u].op \in {"write", "delete"}
        /\ tasks[u].touched /\ ~tasks[u].waited /\ tasks[u].err = "none"
        /\ last[filePath("c", "x")].n = tasks[u].n
        /\ lockedFiles = {}

\* the documents a writeMany has had before its current one
DocsBefore(rec) == SubSeq(rec.input, 1, Len(rec.input) - Len(rec.rest) - 1)

\* C30: writeMany validates and writes its documents one at a time in key
\* order and is not all-or-nothing: a document its schema rejects is never
\* written and makes the call raise; when the call has raised at its k-th
\* document (validation, or a failed write) and no other call has changed a
\* document, the documents before the k-th hold their new content and the
\* k-th and all later ones are as they were.
C30_WriteManyNotAtomic ==
    \A t \in Tasks :
        tasks[t].op = "writeMany"
        => LET rec == tasks[t]
           IN /\ ~SchemaAccepts(rec.schema, rec.data)
                 => /\ rec.pc \in {"ensure", "mkdir", "done"}
                    /\ rec.pc = "done" => rec.err = "validation"
              /\ (/\ rec.pc = "done" /\ rec.err # "none"
                  /\ \A q \in DocPaths : last[q].n \in {0, rec.n})
                 => /\ \A i \in DOMAIN DocsBefore(rec) :
                           LET e == DocsBefore(rec)[i]
                           IN /\ last[filePath(e.c, e.id)].n = rec.n
                              /\ files[filePath(e.c, e.id)] = JSONstringify(e.data)
                    /\ last[PathOf(rec)].n = 0
                    /\ \A i \in DOMAIN rec.rest :
                           last[filePath(rec.rest[i].c, rec.rest[i].id)].n = 0

\* a writeMany of two documents has raised a validation error at the second:
\* the first is stored and the second is not
C30_Witness ==
    \E t \in Tasks :
        /\ Settled(tasks[t], "writeMany") /\ tasks[t].err = "validation"
        /\ Len(DocsBefore(tasks[t])) = 1 /\ tasks[t].rest = <<>>
        /\ last[filePath("c", "x")].n = tasks[t].n
        /\ files[filePath("c", "x")] = JSONstringify(docA)
        /\ files[filePath("c", "y")] = Absent

\* a write commits (its rename replaces the document) on the content that
\* was there when it acquired the lock: no other call has changed the
\* document between its acquisition and its commit
C26_CommitStep ==
    \A t \in Tasks, p \in DocPaths :
        (/\ tasks[t].op = "write" /\ p = PathOf(tasks[t])
         /\ last'[p] # last[p] /\ last'[p].n = tasks[t].n)
        => /\ InCS(tasks[t])
           /\ last[p].n = tasks[t].acqAfter

\* of two writes of one document that have both completed, the one that
\* acquired the lock after the other had committed has its payload stored
C26_LastAcquirerStored ==
    \A t, u \in Tasks :
        (/\ Settled(tasks[t], "write") /\ Settled(tasks[u], "write")
         /\ tasks[t].err = "none" /\ tasks[u].err = "none"
         /\ PathOf(tasks[t]) = PathOf(tasks[u])
         /\ tasks[t].acqAfter = tasks[u].n)
        => /\ tasks[u].acqAfter # tasks[t].n
           /\ last[PathOf(tasks[t])].n = tasks[t].n
           /\ files[PathOf(tasks[t])] = JSONstringify(tasks[t].data)

\* C26: when several writes to one path run concurrently and all complete,
\* the value stored is the payload of the writer that acquired the lock
\* last: the commits are in the order of the lock acquisitions.
C26_CommitOrderIsLockOrder == []C26_LastAcquirerStored /\ [][C26_CommitStep]_vars

\* two writes of different payloads to one document have completed; the
\* one issued first found the lock held by the other, acquired it last, and
\* its payload is stored
C26_Witness ==
    \E t, u \in Tasks :
        /\ Settled(tasks[t], "write") /\ Settled(tasks[u], "write")
        /\ tasks[t].err = "none" /\ tasks[u].err = "none"
        /\ PathOf(tasks[t]) = PathOf(tasks[u])
        /\ tasks[t].n < tasks[u].n
        /\ tasks[t].waited /\ ~tasks[u].waited
        /\ tasks[t].acqAfter = tasks[u].n
        /\ tasks[t].data = docB /\ tasks[u].data = docA
        /\ files[PathOf(tasks[t])] = JSONstringify(docB)

\* the settled call of task u is the call the batchRead operation o stands
\* for: read(c, id) if o has an id, find(c, filter) if it has a filter and
\* no id, readAll(c) otherwise
AnswerTo(o, u) ==
    /\ tasks[u].pc = "done" /\ tasks[u].schema = "none" /\ tasks[u].c = o.c
    /\ IF o.id # "" THEN tasks[u].op = "read" /\ tasks[u].id = o.id
       ELSE IF o.fid # 0 THEN tasks[u].op = "find" /\ tasks[u].fid = o.fid
       ELSE tasks[u].op = "readAll"

\* C25: batchRead never raises and has one result per operation in input
\* order; on a store that nothing changes, result i is success with the data
\* that read, find or readAll returns for operation i, or a failure at its
\* own place if that call throws, and the operations after a failure are
\* answered all the same.
C25_BatchReadResults ==
    \A t \in Tasks :
        tasks[t].op = "batchRead"
        => LET rec == tasks[t]
           IN /\ rec.err = "none"
              /\ Len(rec.results) = Len(rec.order)
              /\ rec.order = SubSeq(rec.input, 1, Len(rec.order))
              /\ rec.pc = "done" => Len(rec.results) = Len(rec.input)
              /\ \A i \in DOMAIN rec.results, u \in Tasks :
                     AnswerTo(rec.input[i], u)
                     => IF tasks[u].err = "none"
                        THEN /\ rec.results[i].success
                             /\ rec.results[i].data = tasks[u].result
                        ELSE /\ ~rec.results[i].success
                             /\ rec.results[i].error = tasks[u].err

\* on a store with a damaged file a batchRead has settled: its readAll has
\* failed as the readAll of another call has, its read after that has
\* returned the document, and its last operation has succeeded
C25_Witness ==
    \E t, u \in Tasks :
        /\ Settled(tasks[t], "batchRead") /\ Len(tasks[t].results) = 3
        /\ CallOf(tasks[t].input[1]) = "readAll"
        /\ AnswerTo(tasks[t].input[1], u) /\ tasks[u].err = "syntax"
        /\ ~tasks[t].results[1].success
        /\ tasks[t].results[2].success /\ tasks[t].results[2].data = docA
        /\ tasks[t].results[3].success

\* C27: the validator is applied on read only when one is supplied and
\* validateOnRead is set: a read of a whole document that violates the
\* supplied schema fails with a validation error if validateOnRead is set,
\* and every other read of a whole document returns the stored value.
C27_ValidateOnRead ==
    \A t \in Tasks :
        (Settled(tasks[t], "read") /\ ParseOk(files[PathOf(tasks[t])]))
        => LET stored == JSONparse(files[PathOf(tasks[t])])
           IN IF /\ tasks[t].schema # "none" /\ options.validateOnRead
                 /\ ~SchemaAccepts(tasks[t].schema, stored)
              THEN tasks[t].err = "validation" /\ tasks[t].result = JUndefined
              ELSE tasks[t].err = "none" /\ tasks[t].result = stored

\* with validateOnRead set, a read with the schema of a document that
\* violates it has failed and a read of that document without a schema has
\* returned it
C27_Witness ==
    \E t, u \in Tasks :
        /\ options.validateOnRead
        /\ Settled(tasks[t], "read") /\ Settled(tasks[u], "read")
        /\ PathOf(tasks[t]) = PathOf(tasks[u])
        /\ files[PathOf(tasks[t])] = JSONstringify(docB)
        /\ tasks[t].schema = "user" /\ tasks[t].err = "validation"
        /\ tasks[u].schema = "none" /\ tasks[u].err = "none" /\ tasks[u].result = docB

\* C31: dropCollection(c) is mutually exclusive with the writes and deletes
\* of documents of c: while it holds its lock on the directory of c no write
\* or delete of a document of c is inside its critical section, no write
\* fails because the directory was removed under it, and after a write and a
\* dropCollection have both completed the collection does not exist or holds
\* the complete written document.
C31_DropExcludesWrites ==
    /\ \A t, u \in Tasks :
           ~ /\ tasks[t].op = "dropCollection" /\ tasks[t].pc = "rm"
             /\ InCS(tasks[u]) /\ tasks[u].c = tasks[t].c
    /\ \A t \in Tasks : Settled(tasks[t], "write") => tasks[t].err # "enoent"
    /\ \A t, u \in Tasks :
           (/\ Settled(tasks[t], "write") /\ tasks[t].err = "none"
            /\ Settled(tasks[u], "dropCollection") /\ tasks[u].err = "none"
            /\ tasks[u].c = tasks[t].c)
           => \/ getCollectionDir(tasks[t].c) \notin dirs
              \/ files[PathOf(tasks[t])] = JSONstringify(tasks[t].data)

\* task t takes this step (a step changes of the other tasks only what they
\* have seen), and the call it takes it for
Acted(t) == [tasks'[t] EXCEPT !.seen = tasks[t].seen] # tasks[t]
CallAt(t) == IF tasks[t].op # "none" THEN tasks[t] ELSE tasks'[t]

\* the paths whose content a step changes
Changed == {p \in AllPaths : files'[p] # files[p]}

\* a step of a write changes nothing but its document and the temporary
\* file of its document, creates no directory but its collection's and
\* removes none, and leaves no temporary file when it completes the call; a
\* step of a delete changes nothing but its document; a step of a read or of
\* a query changes nothing
C32_FrameStep ==
    \A t \in Tasks :
        Acted(t)
        => LET rec == CallAt(t)
           IN CASE rec.op = "write" ->
                     /\ Changed \subseteq {PathOf(rec), tempPath(PathOf(rec))}
                     /\ dirs \subseteq dirs'
                     /\ dirs' \subseteq dirs \cup {getCollectionDir(rec.c)}
                     /\ (tasks'[t].pc = "done" /\ tasks'[t].err = "none")
                        => /\ files'[tempPath(PathOf(rec))] = Absent
                           /\ files'[PathOf(rec)] = JSONstringify(rec.data)
                [] rec.op = "delete" ->
                     /\ Changed \subseteq {PathOf(rec)}
                     /\ dirs' = dirs
                     /\ (tasks'[t].pc = "done" /\ tasks'[t].result = JTrue)
                        => files'[PathOf(rec)] = Absent
                [] rec.op \in QueryOps \cup {"read", "listCollections"} ->
                     files' = files /\ dirs' = dirs
                [] OTHER -> TRUE

\* C32: frame: a write changes only its document (c, id) and, if absent,
\* creates the directory of c, a delete changes only its document, and read,
\* readAll, find, findOne, count and listCollections change nothing: every
\* other document, of c and of every other collection, is as it was.
C32_Frame == [][C32_FrameStep]_vars

\* a write has completed on a store with another document in its collection
\* and a document in another collection, and a query has completed beside
\* it: the other documents are as the store had them
C32_Witness ==
    \E t, u \in Tasks :
        /\ Settled(tasks[t], "write") /\ tasks[t].err = "none"
        /\ PathOf(tasks[t]) = filePath("c", "x")
        /\ last[filePath("c", "x")].n = tasks[t].n
        /\ files[filePath("c", "x")] = JSONstringify(tasks[t].data)
        /\ last[filePath("c", "y")].n = 0
        /\ files[filePath("c", "y")] = JSONstringify(docB)
        /\ last[filePath("d", "x")].n = 0
        /\ files[filePath("d", "x")] = JSONstringify(docB)
        /\ files[tempPath(filePath("c", "x"))] = Absent
        /\ Settled(tasks[u], "readAll") /\ tasks[u].err = "none"

====
